---- MODULE Spec2Model ----
(***************************************************************************)
(* Monte Carlo retirement simulator: the account ledger helpers of         *)
(* lib/simulation.js, the per-trial state machine of                       *)
(* RetirementSimulator.runSingleSimulation, the batched trial loop of      *)
(* runSimulations, the statistics of the collected balances and the        *)
(* Social Security claiming-age adjustment.                                *)
(*                                                                         *)
(* Money is counted in whole units.  Rates are kept in percent, as the     *)
(* parameters give them; the parameter sets below use multiples of 100     *)
(* percent, so that balance * (1 + rate) is exact in integers.  The one    *)
(* division of the code that is not exact on these sets, the RMD quotient  *)
(* balance / period, is truncated to the money unit.                       *)
(***************************************************************************)
EXTENDS Integers, Sequences, FiniteSets, TLC

VARIABLES
    params,            \* this.params
    lifeEvents,        \* this.lifeEvents
    savePath,          \* argument of the running runSingleSimulation call
    pc,                \* position of the call: idle, accumulation, distribution, exit, done
    year,              \* loop counter of the current phase
    balances,          \* the five account balances of the trial
    contribs,          \* the five yearly contributions of the trial
    currentSpending,   \* inflation-adjusted spending
    ssActive,          \* Social Security flag
    currentSSBenefit,  \* inflation-adjusted Social Security benefit
    path,              \* recorded trajectory (used only when savePath)
    result,            \* the returned { finalBalance, path }
    draws,             \* number of return samples drawn by the call so far
    log,               \* what the last simulated year did (history variable)
    call,              \* a call of a pure function: operation and arguments
    ret,               \* what that call left: arguments after and value returned
    allEndingBalances, \* this.allEndingBalances
    samplePaths,       \* this.samplePaths
    run,               \* the runSimulations call: its position and its locals
    progressCalls,     \* the values the call has passed to onProgress so far
    trialResults       \* the results the call's trials returned (history variable)

vars == <<params, lifeEvents, savePath, pc, year, balances, contribs,
          currentSpending, ssActive, currentSSBenefit, path, result, draws,
          log, call, ret, allEndingBalances, samplePaths, run, progressCalls,
          trialResults>>

trialVars == <<params, lifeEvents, savePath, pc, year, balances, contribs,
               currentSpending, ssActive, currentSSBenefit, path, result,
               draws, log>>

helperVars == <<call, ret>>

runVars == <<allEndingBalances, samplePaths, run, progressCalls, trialResults>>

-----------------------------------------------------------------------------
(* Bounds of the model *)

MaxAccYears == 1
MaxRetYears == 2
MaxBalanceSteps == 2
MaxAmountSteps == 31

-----------------------------------------------------------------------------
(* Arithmetic helpers *)

Min(a, b) == IF a <= b THEN a ELSE b

Max(a, b) == IF a >= b THEN a ELSE b

Abs(a) == IF a < 0 THEN -a ELSE a

RECURSIVE Pow(_, _)
Pow(b, e) == IF e = 0 THEN 1 ELSE b * Pow(b, e - 1)

RECURSIVE GCD(_, _)
GCD(a, b) == IF b = 0 THEN a ELSE GCD(b, a % b)

-----------------------------------------------------------------------------
(* lib/simulation.js *)

Accounts == {"traditional401k", "roth401k", "traditionalIRA", "rothIRA", "taxable"}

ZeroBalances ==
    [traditional401k |-> 0, roth401k |-> 0, traditionalIRA |-> 0,
     rothIRA |-> 0, taxable |-> 0]

\* Math.cos(2 * PI * u2) for u2 = q / 4
CosQuarter(q) == CASE q = 0 -> 1 [] q = 1 -> 0 [] q = 2 -> -1 [] OTHER -> 0

\* The Box-Muller deviate z0.  The first uniform draw is u1 = exp(-k*k/2),
\* for which Math.sqrt(-2 * Math.log(u1)) = k; the second is u2 = q / 4.
BoxMullerZ(k, q) == k * CosQuarter(q)

\* The sample with the deviate scaled by 100 percent whatever stdDev is
sampleUnitDeviation(mean, stdDev, k, q) == mean + 100 * BoxMullerZ(k, q)

\* mean and stdDev in percent; the sample is in percent too
generateNormalRandom(mean, stdDev, k, q) == mean + stdDev * BoxMullerZ(k, q)

\* The source the sampler draws from: its third parameter, which defaults to
\* Math.random when the caller passes no third argument
randomFnUsed(randomFn) == IF randomFn = "undefined" THEN "Math.random" ELSE randomFn

\* The interval test with the end age included
IsActiveThroughEnd(age, event) ==
    age >= event.startAge /\ age <= event.startAge + event.duration

IsActive(age, event) ==
    age >= event.startAge /\ age < event.startAge + event.duration

RECURSIVE SumImpact(_, _, _, _)
SumImpact(age, events, isExpense, i) ==
    IF i > Len(events) THEN 0
    ELSE (IF IsActive(age, events[i]) /\ ((events[i].type = "expense") = isExpense)
          THEN events[i].amount ELSE 0)
         + SumImpact(age, events, isExpense, i + 1)

getLifeEventImpact(age, events) ==
    [expense |-> SumImpact(age, events, TRUE, 1),
     income  |-> SumImpact(age, events, FALSE, 1)]

getTotalBalance(b) ==
    b.traditional401k + b.roth401k + b.traditionalIRA + b.rothIRA + b.taxable

\* balances[acct] * (1 + returnRate), returnRate = ratePct / 100
applyMarketReturns(b, ratePct) ==
    [a \in Accounts |-> (b[a] * (100 + ratePct)) \div 100]

addContributions(b, c) == [a \in Accounts |-> b[a] + c[a]]

\* Draw without the Math.min cap
DrawUncapped(s, acct) ==
    IF s.remaining > 0 /\ s.balances[acct] > 0
    THEN [balances  |-> [s.balances EXCEPT ![acct] = @ - s.remaining],
          remaining |-> 0]
    ELSE s

\* One step of a cascade: if (remaining > 0 && balances[acct] > 0) { ... }
Draw(s, acct) ==
    IF s.remaining > 0 /\ s.balances[acct] > 0
    THEN LET w == Min(s.balances[acct], s.remaining)
         IN  [balances  |-> [s.balances EXCEPT ![acct] = @ - w],
              remaining |-> s.remaining - w]
    ELSE s

\* The cascade with the first two accounts in the wrong order
withdrawTraditionalFirst(b, amount) ==
    Draw(Draw(Draw(Draw(Draw([balances |-> b, remaining |-> amount],
                             "traditional401k"),
                        "taxable"),
                   "traditionalIRA"),
              "roth401k"),
         "rothIRA")

withdrawFromAccounts(b, amount) ==
    Draw(Draw(Draw(Draw(Draw([balances |-> b, remaining |-> amount],
                             "taxable"),
                        "traditional401k"),
                   "traditionalIRA"),
              "roth401k"),
         "rothIRA")

\* Uniform Lifetime Table, distribution periods in tenths of a year, ages 72..120
RMD_PERIODS ==
    <<274, 265, 255, 246, 237, 229, 220, 211, 202, 194, 185, 177, 168, 160,
      152, 144, 137, 129, 122, 115, 108, 101, 95, 89, 84, 78, 73, 68, 64, 60,
      56, 52, 49, 46, 43, 41, 39, 37, 35, 34, 33, 31, 30, 29, 28, 27, 25, 23,
      20>>

RMD_TABLE == [a \in 72..120 |-> RMD_PERIODS[a - 71]]

RMD_START_AGE == 73

\* calculateRMD with the start-age test off by one (age <= RMD_START_AGE)
calculateRMDOffByOne(b, age) ==
    IF age <= RMD_START_AGE
    THEN [required |-> FALSE, amount |-> 0, period |-> 0]
    ELSE LET traditionalBalance == b.traditional401k + b.traditionalIRA
             lookupAge == Min(age, 120)
             period == IF lookupAge \in DOMAIN RMD_TABLE
                       THEN RMD_TABLE[lookupAge] ELSE 20
         IN  IF traditionalBalance <= 0
             THEN [required |-> TRUE, amount |-> 0, period |-> 0]
             ELSE [required |-> TRUE,
                   amount   |-> (traditionalBalance * 10) \div period,
                   period   |-> period]

\* period: tenths of a year, 0 for null
calculateRMD(b, age) ==
    IF age < RMD_START_AGE
    THEN [required |-> FALSE, amount |-> 0, period |-> 0]
    ELSE LET traditionalBalance == b.traditional401k + b.traditionalIRA
             lookupAge == Min(age, 120)
             period == IF lookupAge \in DOMAIN RMD_TABLE
                       THEN RMD_TABLE[lookupAge] ELSE 20
         IN  IF traditionalBalance <= 0
             THEN [required |-> TRUE, amount |-> 0, period |-> 0]
             ELSE [required |-> TRUE,
                   amount   |-> (traditionalBalance * 10) \div period,
                   period   |-> period]

\* calculateRMD for an age given in half years, as a retirementAge of 72.5
\* makes the ages of the distribution loop (73.5, 74.5, ...): RMD_TABLE has
\* whole-year keys only, so RMD_TABLE[lookupAge] is undefined at a half
\* year and period is the 2.0 after the ||
calculateRMDAtHalfYears(b, halfYears) ==
    IF halfYears % 2 = 0
    THEN calculateRMD(b, halfYears \div 2)
    ELSE IF halfYears < 2 * RMD_START_AGE
    THEN [required |-> FALSE, amount |-> 0, period |-> 0]
    ELSE IF b.traditional401k + b.traditionalIRA <= 0
    THEN [required |-> TRUE, amount |-> 0, period |-> 0]
    ELSE [required |-> TRUE,
          amount   |-> ((b.traditional401k + b.traditionalIRA) * 10) \div 20,
          period   |-> 20]

\* One step of applyRMD
DrawRMD(s, acct) ==
    IF s.remaining > 0 /\ s.balances[acct] > 0
    THEN LET w == Min(s.balances[acct], s.remaining)
         IN  [balances  |-> [s.balances EXCEPT ![acct] = @ - w],
              remaining |-> s.remaining - w,
              withdrawn |-> s.withdrawn + w]
    ELSE s

\* applyRMD drawing on the IRA before the 401k
applyRMDIRAFirst(b, rmdAmount) ==
    DrawRMD(DrawRMD([balances |-> b, remaining |-> rmdAmount, withdrawn |-> 0],
                    "traditionalIRA"),
            "traditional401k")

applyRMD(b, rmdAmount) ==
    DrawRMD(DrawRMD([balances |-> b, remaining |-> rmdAmount, withdrawn |-> 0],
                    "traditional401k"),
            "traditionalIRA")

-----------------------------------------------------------------------------
(* RetirementSimulator.runSingleSimulation: the pieces written inline *)

\* One step of the accumulation-phase cascade:
\* if (deficit > 0 && balances[acct] > 0) { ... }
DeficitStep(s, acct) ==
    IF s.remaining > 0 /\ s.balances[acct] > 0
    THEN LET withdraw == Min(s.balances[acct], s.remaining)
         IN  [balances  |-> [s.balances EXCEPT ![acct] = @ - withdraw],
              remaining |-> s.remaining - withdraw]
    ELSE s

\* The accumulation-phase cascade for a life-event deficit
accumulationCascade(b, deficit) ==
    DeficitStep(DeficitStep(DeficitStep(DeficitStep(DeficitStep(
        [balances |-> b, remaining |-> deficit],
        "taxable"), "traditional401k"), "traditionalIRA"), "roth401k"), "rothIRA")

\* The first step taking the whole need from the taxable account
SpendingFirstStepUncapped(s) ==
    IF s.balances.taxable > 0
    THEN [balances  |-> [s.balances EXCEPT !.taxable = @ - s.remaining],
          remaining |-> 0]
    ELSE s

\* First step of the distribution-phase cascade: if (balances.taxable > 0) { ... }
SpendingFirstStep(s) ==
    IF s.balances.taxable > 0
    THEN LET taxableWithdraw == Min(s.balances.taxable, s.remaining)
         IN  [balances  |-> [s.balances EXCEPT !.taxable = @ - taxableWithdraw],
              remaining |-> s.remaining - taxableWithdraw]
    ELSE s

\* Later steps: if (netSpendingNeeded > 0 && balances[acct] > 0) { ... }
SpendingStep(s, acct) ==
    IF s.remaining > 0 /\ s.balances[acct] > 0
    THEN LET withdraw == Min(s.balances[acct], s.remaining)
         IN  [balances  |-> [s.balances EXCEPT ![acct] = @ - withdraw],
              remaining |-> s.remaining - withdraw]
    ELSE s

\* The cascade stopping before the Roth accounts
distributionCascadeWithoutRoth(b, netSpendingNeeded) ==
    IF netSpendingNeeded > 0
    THEN SpendingStep(SpendingStep(SpendingFirstStep(
             [balances |-> b, remaining |-> netSpendingNeeded]),
             "traditional401k"), "traditionalIRA")
    ELSE [balances |-> b, remaining |-> netSpendingNeeded]

\* A negative spending need deposited into the taxable account
distributionCascadeDepositingSurplus(b, netSpendingNeeded) ==
    IF netSpendingNeeded > 0
    THEN SpendingStep(SpendingStep(SpendingStep(SpendingStep(SpendingFirstStep(
             [balances |-> b, remaining |-> netSpendingNeeded]),
             "traditional401k"), "traditionalIRA"), "roth401k"), "rothIRA")
    ELSE [balances |-> [b EXCEPT !.taxable = @ - netSpendingNeeded], remaining |-> 0]

\* The distribution-phase cascade for the spending still needed after the RMD
distributionCascade(b, netSpendingNeeded) ==
    IF netSpendingNeeded > 0
    THEN SpendingStep(SpendingStep(SpendingStep(SpendingStep(SpendingFirstStep(
             [balances |-> b, remaining |-> netSpendingNeeded]),
             "traditional401k"), "traditionalIRA"), "roth401k"), "rothIRA")
    ELSE [balances |-> b, remaining |-> netSpendingNeeded]

\* The flag assigned the value of the test instead of being set by it
ssActiveAssigned(active, ssStartAge, age) ==
    ssStartAge # 0 /\ age >= ssStartAge /\ ~active

\* if (ssStartAge && currentAgeInLoop >= ssStartAge && !ssActive) ssActive = true
ssActiveAfterCheck(active, ssStartAge, age) ==
    IF ssStartAge # 0 /\ age >= ssStartAge /\ ~active THEN TRUE ELSE active

\* currentSpending *= 1 + inflationRate / 100
inflateSpending(spending, inflationRate) ==
    (spending * (100 + inflationRate)) \div 100

\* The benefit inflated whether or not Social Security is active
inflateSSBenefitAlways(benefit, active, inflationRate) ==
    (benefit * (100 + inflationRate)) \div 100

\* if (ssActive) currentSSBenefit *= 1 + inflationRate / 100
inflateSSBenefit(benefit, active, inflationRate) ==
    IF active THEN (benefit * (100 + inflationRate)) \div 100 ELSE benefit

\* balances and contribs as initialised from the parameters
\* The trial writes to the parameters through an alias of params.accounts
paramsAliased(p, b) == IF p.advancedMode THEN [p EXCEPT !.accounts = b] ELSE p

\* What a write to the trial's balances leaves in params: the balances are
\* an object literal of their own, so params.accounts keeps its values
paramsAfterWrite(p, b) == p

initialBalances(p) ==
    IF p.advancedMode
    THEN p.accounts
    ELSE [ZeroBalances EXCEPT !.traditional401k = p.currentSavings]

initialContribs(p) ==
    IF p.advancedMode
    THEN p.contributions
    ELSE [ZeroBalances EXCEPT !.traditional401k = p.annualContribution]

-----------------------------------------------------------------------------
(* Inputs *)

RetirementAges == {69, 72}

ExpectedReturns == {0}

ReturnVolatilities == {0, 100}

InflationRates == {0, 100}

AnnualSpendings == {10, 200}

\* <<ssStartAge, ssAnnualBenefit>>; start age 0 is "not configured"
SocialSecurityChoices == {<<0, 0>>, <<70, 20>>}

PreTaxAccounts == [ZeroBalances EXCEPT !.traditional401k = 60, !.traditionalIRA = 30]

AllAccounts ==
    [traditional401k |-> 60, roth401k |-> 30, traditionalIRA |-> 30,
     rothIRA |-> 30, taxable |-> 30]

RothContributions == [ZeroBalances EXCEPT !.roth401k = 30]

\* <<advancedMode, accounts, contributions, <<currentSavings, annualContribution>>>>
ModeChoices ==
    { <<TRUE, ZeroBalances, ZeroBalances, <<0, 0>>>>,
      <<TRUE, PreTaxAccounts, ZeroBalances, <<0, 0>>>>,
      <<TRUE, PreTaxAccounts, RothContributions, <<0, 0>>>>,
      <<TRUE, AllAccounts, ZeroBalances, <<0, 0>>>>,
      <<FALSE, ZeroBalances, ZeroBalances, <<60, 30>>>> }

\* The uniform draws of one return sample: u1 = exp(-k*k/2), u2 = q/4
U1Draws == {1, 2}

U2Draws == {0, 2}

Params(ra, ya, yr, er, rv, ir, sp, ss, mode) ==
    [currentAge         |-> ra - ya,
     retirementAge      |-> ra,
     yearsInRetirement  |-> yr,
     expectedReturn     |-> er,
     returnVolatility   |-> rv,
     inflationRate      |-> ir,
     annualSpending     |-> sp,
     advancedMode       |-> mode[1],
     accounts           |-> mode[2],
     contributions      |-> mode[3],
     currentSavings     |-> mode[4][1],
     annualContribution |-> mode[4][2],
     ssStartAge         |-> ss[1],
     ssAnnualBenefit    |-> ss[2]]

LifeEvent(type, amount, startAge, duration) ==
    [type |-> type, amount |-> amount, startAge |-> startAge, duration |-> duration]

LifeEventLists(p) ==
    LET workExpense == LifeEvent("expense", 20, p.currentAge, 1)
        workIncome  == LifeEvent("income", 20, p.currentAge, 1)
        retExpense  == LifeEvent("expense", 20, p.retirementAge, 2)
        retIncome   == LifeEvent("income", 50, p.retirementAge + 1, 1)
    IN  { <<>>, <<workExpense>>, <<workIncome>>, <<retExpense>>, <<retIncome>>,
          <<workExpense, retIncome>> }

NoLog ==
    [phase |-> "none", k |-> 0, age |-> 0, afterReturn |-> ZeroBalances,
     need |-> 0, rmdWithdrawn |-> 0, remaining |-> 0, ssOn |-> FALSE,
     ssThisYear |-> 0, spending |-> 0, ssBenefit |-> 0, early |-> FALSE,
     returnRate |-> 0, randomFn |-> "none"]

NoCall == [op |-> "none", balances |-> ZeroBalances, arg |-> 0]

NoRun ==
    [pc |-> "none", onProgress |-> FALSE, numBatches |-> 0, batch |-> 0,
     batchEnd |-> 0, i |-> 0, runs |-> 0]

\* The simulator as the constructor leaves it, with no runSimulations call
IdleRun ==
    /\ allEndingBalances = <<>>
    /\ samplePaths = <<>>
    /\ run = NoRun
    /\ progressCalls = <<>>
    /\ trialResults = <<>>

NoRet ==
    [done |-> FALSE, balances |-> ZeroBalances, value |-> 0, required |-> FALSE,
     period |-> 0]

-----------------------------------------------------------------------------
(* The trial: one call of runSingleSimulation on a constructed simulator *)

Init ==
    /\ \E ra \in RetirementAges, ya \in 0..MaxAccYears, yr \in 0..MaxRetYears,
          er \in ExpectedReturns, rv \in ReturnVolatilities, ir \in InflationRates,
          sp \in AnnualSpendings, ss \in SocialSecurityChoices, mode \in ModeChoices :
         params = Params(ra, ya, yr, er, rv, ir, sp, ss, mode)
    /\ lifeEvents \in LifeEventLists(params)
    /\ savePath = FALSE
    /\ pc = "idle"
    /\ year = 0
    /\ balances = ZeroBalances
    /\ contribs = ZeroBalances
    /\ currentSpending = 0
    /\ ssActive = FALSE
    /\ currentSSBenefit = 0
    /\ path = <<>>
    /\ result = [finalBalance |-> 0, path |-> <<>>]
    /\ draws = 0
    /\ log = NoLog
    /\ call = NoCall
    /\ ret = NoRet
    /\ IdleRun

\* Entry of runSingleSimulation(savePath): the account records and the path
\* (a path that is not recorded is null in the code and <<>> here)
runSingleSimulationEntry(sp) ==
    /\ pc = "idle"
    /\ savePath' = sp
    /\ path' = IF sp
               THEN <<[age |-> params.currentAge,
                       balance |-> getTotalBalance(initialBalances(params))]>>
               ELSE <<>>
    /\ balances' = initialBalances(params)
    /\ contribs' = initialContribs(params)
    /\ year' = 0
    /\ pc' = "accumulation"
    /\ UNCHANGED <<params, lifeEvents, currentSpending, ssActive, currentSSBenefit,
                   result, draws, log, call, ret>>

\* A call of runSingleSimulation made directly on the simulator
Begin ==
    /\ run.pc = "none"
    /\ \E sp \in BOOLEAN : runSingleSimulationEntry(sp)
    /\ UNCHANGED runVars

\* One iteration of the accumulation loop
AccumulationYear ==
    /\ pc = "accumulation"
    /\ year < params.retirementAge - params.currentAge
    /\ \E k \in U1Draws, q \in U2Draws :
         LET currentAgeInLoop == params.currentAge + year
             returnRate == generateNormalRandom(params.expectedReturn,
                                                params.returnVolatility, k, q)
             grown == addContributions(applyMarketReturns(balances, returnRate),
                                       contribs)
             impact == getLifeEventImpact(currentAgeInLoop, lifeEvents)
             netLifeEventImpact == impact.income - impact.expense
             cascade == accumulationCascade(grown, Abs(netLifeEventImpact))
             after == IF netLifeEventImpact >= 0
                      THEN [grown EXCEPT !.taxable = @ + netLifeEventImpact]
                      ELSE cascade.balances
             failed == netLifeEventImpact < 0 /\ cascade.remaining > 0
         IN  /\ balances' = after
             /\ draws' = draws + 1
             /\ log' = [NoLog EXCEPT !.phase = "accumulation", !.k = year,
                                     !.age = currentAgeInLoop,
                                     !.returnRate = returnRate,
                                     !.randomFn = randomFnUsed("undefined"),
                                     !.afterReturn = grown,
                                     !.need = -netLifeEventImpact,
                                     !.remaining = IF netLifeEventImpact < 0
                                                   THEN cascade.remaining ELSE 0,
                                     !.early = failed]
             /\ IF failed
                THEN /\ result' = [finalBalance |-> 0, path |-> path]
                     /\ pc' = "done"
                     /\ UNCHANGED <<year, path>>
                ELSE /\ path' = IF savePath
                                THEN Append(path, [age |-> currentAgeInLoop + 1,
                                                   balance |-> getTotalBalance(after)])
                                ELSE path
                     /\ year' = year + 1
                     /\ UNCHANGED <<pc, result>>
    /\ params' = paramsAfterWrite(params, balances')
    /\ UNCHANGED <<lifeEvents, savePath, contribs, currentSpending, ssActive,
                   currentSSBenefit, call, ret, runVars>>

\* The accumulation loop is over: set up the distribution phase
EnterDistribution ==
    /\ pc = "accumulation"
    /\ ~(year < params.retirementAge - params.currentAge)
    /\ currentSpending' = params.annualSpending
    /\ ssActive' = FALSE
    /\ currentSSBenefit' = params.ssAnnualBenefit
    /\ year' = 0
    /\ pc' = "distribution"
    /\ UNCHANGED <<params, lifeEvents, savePath, balances, contribs, path, result,
                   draws, log, call, ret, runVars>>

\* One iteration of the distribution loop
DistributionYear ==
    /\ pc = "distribution"
    /\ year < params.yearsInRetirement
    /\ \E k \in U1Draws, q \in U2Draws :
         LET currentAgeInLoop == params.retirementAge + year
             returnRate == generateNormalRandom(params.expectedReturn,
                                                params.returnVolatility, k, q)
             grown == applyMarketReturns(balances, returnRate)
             active == ssActiveAfterCheck(ssActive, params.ssStartAge, currentAgeInLoop)
             ssThisYear == IF active THEN currentSSBenefit ELSE 0
             impact == getLifeEventImpact(currentAgeInLoop, lifeEvents)
             needed == currentSpending - ssThisYear - impact.income + impact.expense
             rmd == calculateRMD(grown, currentAgeInLoop)
             taken == IF rmd.required /\ rmd.amount > 0
                      THEN applyRMD(grown, rmd.amount)
                      ELSE [balances |-> grown, remaining |-> 0, withdrawn |-> 0]
             cascade == distributionCascade(taken.balances, needed - taken.withdrawn)
             totalBalance == getTotalBalance(cascade.balances)
         IN  /\ balances' = cascade.balances
             /\ ssActive' = active
             /\ currentSpending' = inflateSpending(currentSpending, params.inflationRate)
             /\ currentSSBenefit' = inflateSSBenefit(currentSSBenefit, active,
                                                     params.inflationRate)
             /\ draws' = draws + 1
             /\ path' = IF savePath
                        THEN Append(path, [age |-> currentAgeInLoop + 1,
                                           balance |-> totalBalance])
                        ELSE path
             /\ log' = [NoLog EXCEPT !.phase = "distribution", !.k = year,
                                     !.age = currentAgeInLoop,
                                     !.returnRate = returnRate,
                                     !.randomFn = randomFnUsed("undefined"),
                                     !.afterReturn = grown,
                                     !.need = needed,
                                     !.rmdWithdrawn = taken.withdrawn,
                                     !.remaining = cascade.remaining,
                                     !.ssOn = active,
                                     !.ssThisYear = ssThisYear,
                                     !.spending = currentSpending,
                                     !.ssBenefit = currentSSBenefit,
                                     !.early = totalBalance <= 0]
             /\ IF totalBalance <= 0
                THEN pc' = "exit" /\ year' = year
                ELSE pc' = pc /\ year' = year + 1
    /\ params' = paramsAfterWrite(params, balances')
    /\ UNCHANGED <<lifeEvents, savePath, contribs, result, call, ret, runVars>>

\* The distribution loop is over (ran out of years, or break): return
Return ==
    /\ \/ pc = "exit"
       \/ pc = "distribution" /\ ~(year < params.yearsInRetirement)
    /\ result' = [finalBalance |-> getTotalBalance(balances), path |-> path]
    /\ pc' = "done"
    /\ UNCHANGED <<params, lifeEvents, savePath, year, balances, contribs,
                   currentSpending, ssActive, currentSSBenefit, path, draws, log,
                   call, ret, runVars>>

Next ==
    \/ Begin
    \/ AccumulationYear
    \/ EnterDistribution
    \/ DistributionYear
    \/ Return

Spec == Init /\ [][Next]_vars

-----------------------------------------------------------------------------
(* The ledger helpers of lib/simulation.js called on their own *)

BalanceValues == { 30 * i : i \in 0..MaxBalanceSteps }

AmountValues == { 10 * i : i \in -1..MaxAmountSteps }

HelperAges == {60, 72, 73, 74, 90, 119, 120, 121, 125}

HelperBalances == [Accounts -> BalanceValues]

IdleTrial ==
    /\ params = Params(72, 0, 0, 0, 0, 0, 0, <<0, 0>>,
                       <<FALSE, ZeroBalances, ZeroBalances, <<0, 0>>>>)
    /\ lifeEvents = <<>>
    /\ savePath = FALSE
    /\ pc = "idle"
    /\ year = 0
    /\ balances = ZeroBalances
    /\ contribs = ZeroBalances
    /\ currentSpending = 0
    /\ ssActive = FALSE
    /\ currentSSBenefit = 0
    /\ path = <<>>
    /\ result = [finalBalance |-> 0, path |-> <<>>]
    /\ draws = 0
    /\ log = NoLog

\* Retirement ages in half years: 65, 72, 72.5, 73, 118.5
RetirementHalfYears == {130, 144, 145, 146, 237}

\* Years of the distribution loop
LoopYears == {0, 1, 2, 3}

\* Balances given to the inline cascades, a negative one included
CascadeBalances == [Accounts -> {-30, 0, 30}]

\* Deficits and spending needs given to the inline cascades
CascadeAmounts == {-10, 0, 10, 30, 50, 100}

InitHelpers ==
    /\ IdleTrial
    /\ \/ \E b \in HelperBalances :
            \/ \E amount \in AmountValues, op \in {"withdrawFromAccounts", "applyRMD"} :
                 call = [op |-> op, balances |-> b, arg |-> amount]
            \/ \E age \in HelperAges :
                 call = [op |-> "calculateRMD", balances |-> b, arg |-> age]
            \/ \E retirementAge \in RetirementHalfYears, k \in LoopYears :
                 call = [op |-> "calculateRMDInYear", balances |-> b,
                         retirementAge |-> retirementAge, year |-> k]
       \/ \E b \in CascadeBalances, amount \in CascadeAmounts :
            \/ call = [op |-> "distributionCascade", balances |-> b, arg |-> amount]
            \/ /\ amount > 0
               /\ call = [op |-> "accumulationCascade", balances |-> b,
                          arg |-> amount]
    /\ ret = NoRet
    /\ IdleRun

CallWithdrawFromAccounts ==
    /\ call.op = "withdrawFromAccounts"
    /\ ~ret.done
    /\ LET r == withdrawFromAccounts(call.balances, call.arg)
       IN  ret' = [NoRet EXCEPT !.done = TRUE, !.balances = r.balances,
                                !.value = r.remaining]
    /\ UNCHANGED <<trialVars, call, runVars>>

CallApplyRMD ==
    /\ call.op = "applyRMD"
    /\ ~ret.done
    /\ LET r == applyRMD(call.balances, call.arg)
       IN  ret' = [NoRet EXCEPT !.done = TRUE, !.balances = r.balances,
                                !.value = r.withdrawn]
    /\ UNCHANGED <<trialVars, call, runVars>>

\* calculateRMD does not write to the balances it is given
CallCalculateRMD ==
    /\ call.op = "calculateRMD"
    /\ ~ret.done
    /\ LET r == calculateRMD(call.balances, call.arg)
       IN  ret' = [NoRet EXCEPT !.done = TRUE, !.balances = call.balances,
                                !.value = r.amount, !.required = r.required,
                                !.period = r.period]
    /\ UNCHANGED <<trialVars, call, runVars>>

\* The RMD of distribution year call.year: currentAgeInLoop = retirementAge
\* + year, then calculateRMD(balances, currentAgeInLoop); ages in half years
CallCalculateRMDInYear ==
    /\ call.op = "calculateRMDInYear"
    /\ ~ret.done
    /\ LET r == calculateRMDAtHalfYears(call.balances,
                                        call.retirementAge + 2 * call.year)
       IN  ret' = [NoRet EXCEPT !.done = TRUE, !.balances = call.balances,
                                !.value = r.amount, !.required = r.required,
                                !.period = r.period]
    /\ UNCHANGED <<trialVars, call, runVars>>

\* The withdrawal block of an accumulation year with a net expense: deficit
\* = Math.abs(netLifeEventImpact) > 0, then the five steps
CallAccumulationCascade ==
    /\ call.op = "accumulationCascade"
    /\ ~ret.done
    /\ LET r == accumulationCascade(call.balances, call.arg)
       IN  ret' = [NoRet EXCEPT !.done = TRUE, !.balances = r.balances,
                                !.value = r.remaining]
    /\ UNCHANGED <<trialVars, call, runVars>>

\* The withdrawal block of a distribution year for the need left after the RMD
CallDistributionCascade ==
    /\ call.op = "distributionCascade"
    /\ ~ret.done
    /\ LET r == distributionCascade(call.balances, call.arg)
       IN  ret' = [NoRet EXCEPT !.done = TRUE, !.balances = r.balances,
                                !.value = r.remaining]
    /\ UNCHANGED <<trialVars, call, runVars>>

NextHelpers ==
    \/ CallWithdrawFromAccounts
    \/ CallApplyRMD
    \/ CallCalculateRMD
    \/ CallCalculateRMDInYear
    \/ CallAccumulationCascade
    \/ CallDistributionCascade

SpecHelpers == InitHelpers /\ [][NextHelpers]_vars

-----------------------------------------------------------------------------
(* RetirementSimulator.runSimulations: trials in batches, with a progress  *)
(* callback and a yield to the event loop after each batch                 *)

batchSize == 1000

\* More runSimulations calls than this on one simulator are not explored
MaxRuns == 2

Ceil(a, b) == (a + b - 1) \div b

\* Math.round(x) for x = num / den >= 0: the nearest integer, halves upwards
Round(num, den) == (2 * num + den) \div (2 * den)

\* The percentage of a full batch instead of the percentage of the run
progressOfBatch(batchEnd, numSimulations) == Round(batchEnd * 100, batchSize)

\* Math.round((batchEnd / numSimulations) * 100)
progressPercent(batchEnd, numSimulations) == Round(batchEnd * 100, numSimulations)

\* The sample-path test with one path too many
savePathUpTo30(paths) == Len(paths) <= 30

\* const savePath = this.samplePaths.length < 30
savePathFor(paths) == Len(paths) < 30

\* Only the trials that ended with money are collected
pushIfPositive(all, res) == IF res.finalBalance > 0 THEN Append(all, res.finalBalance) ELSE all

\* this.allEndingBalances.push(result.finalBalance)
pushFinalBalance(all, res) == Append(all, res.finalBalance)

\* if (savePath && result.path) this.samplePaths.push(result.path)
pushSamplePath(paths, sp, res) ==
    IF sp /\ res.path # <<>> THEN Append(paths, res.path) ELSE paths

\* this.params with its numSimulations field
WithNumSimulations(p, n) ==
    [currentAge         |-> p.currentAge,
     retirementAge      |-> p.retirementAge,
     yearsInRetirement  |-> p.yearsInRetirement,
     expectedReturn     |-> p.expectedReturn,
     returnVolatility   |-> p.returnVolatility,
     inflationRate      |-> p.inflationRate,
     annualSpending     |-> p.annualSpending,
     advancedMode       |-> p.advancedMode,
     accounts           |-> p.accounts,
     contributions      |-> p.contributions,
     currentSavings     |-> p.currentSavings,
     annualContribution |-> p.annualContribution,
     ssStartAge         |-> p.ssStartAge,
     ssAnnualBenefit    |-> p.ssAnnualBenefit,
     numSimulations     |-> n]

\* One year of retirement, no volatility: every trial is the same
SteadyParams ==
    Params(72, 0, 1, 0, 0, 0, 10, <<0, 0>>,
           <<FALSE, ZeroBalances, ZeroBalances, <<60, 30>>>>)

SteadyCounts == {0, 1, 31, 2001}

\* One working year and one year of retirement with volatile returns and an
\* expense in the working year: trials succeed, deplete or fall short
VolatileParams ==
    Params(72, 1, 1, 0, 100, 0, 10, <<0, 0>>,
           <<TRUE, PreTaxAccounts, ZeroBalances, <<0, 0>>>>)

VolatileEvents == <<LifeEvent("expense", 20, 71, 1)>>

VolatileCounts == {2}

\* The scenario of the simulator's tests (makeParams) with no volatility
ReferenceParams ==
    Params(65, 35, 30, 7, 0, 0, 40000, <<0, 0>>,
           <<FALSE, ZeroBalances, ZeroBalances, <<100000, 10000>>>>)

ReferenceCounts == {10}

\* <<params, lifeEvents>> of the simulators that are run
RunScenarios ==
    { <<WithNumSimulations(SteadyParams, n), <<>>>> : n \in SteadyCounts }
    \cup { <<WithNumSimulations(VolatileParams, n), VolatileEvents>> : n \in VolatileCounts }
    \cup { <<WithNumSimulations(ReferenceParams, n), <<>>>> : n \in ReferenceCounts }

\* new RetirementSimulator(params, lifeEvents)
InitRun ==
    /\ \E sc \in RunScenarios : params = sc[1] /\ lifeEvents = sc[2]
    /\ savePath = FALSE
    /\ pc = "idle"
    /\ year = 0
    /\ balances = ZeroBalances
    /\ contribs = ZeroBalances
    /\ currentSpending = 0
    /\ ssActive = FALSE
    /\ currentSSBenefit = 0
    /\ path = <<>>
    /\ result = [finalBalance |-> 0, path |-> <<>>]
    /\ draws = 0
    /\ log = NoLog
    /\ call = NoCall
    /\ ret = NoRet
    /\ IdleRun

\* The head of the batch loop: for (batch ...; batch < numBatches; ...)
batchHead(r, batch, numSimulations) ==
    IF batch < r.numBatches
    THEN [r EXCEPT !.pc = "batch", !.batch = batch,
                   !.i = batch * batchSize,
                   !.batchEnd = Min((batch + 1) * batchSize, numSimulations)]
    ELSE [r EXCEPT !.pc = "resolved", !.batch = batch]

\* runSimulations(onProgress) is called: the code up to the first trial
StartRun ==
    /\ run.pc \in {"none", "resolved"}
    /\ pc \in {"idle", "done"}
    /\ run.runs < MaxRuns
    /\ \E cb \in BOOLEAN :
         run' = batchHead([NoRun EXCEPT !.onProgress = cb,
                                        !.numBatches = Ceil(params.numSimulations,
                                                            batchSize),
                                        !.runs = run.runs + 1],
                          0, params.numSimulations)
    /\ allEndingBalances' = <<>>
    /\ samplePaths' = <<>>
    /\ progressCalls' = <<>>
    /\ trialResults' = <<>>
    /\ pc' = "idle"
    /\ draws' = 0
    /\ log' = NoLog
    /\ UNCHANGED <<params, lifeEvents, savePath, year, balances, contribs,
                   currentSpending, ssActive, currentSSBenefit, path, result,
                   call, ret>>

\* The trial loop calls runSingleSimulation(savePath)
RunTrial ==
    /\ run.pc = "batch"
    /\ run.i < run.batchEnd
    /\ runSingleSimulationEntry(savePathFor(samplePaths))
    /\ UNCHANGED runVars

\* The trial returned: its result is pushed and the loop counter advances
Collect ==
    /\ run.pc = "batch"
    /\ pc = "done"
    /\ allEndingBalances' = pushFinalBalance(allEndingBalances, result)
    /\ samplePaths' = pushSamplePath(samplePaths, savePath, result)
    /\ trialResults' = Append(trialResults, result)
    /\ run' = [run EXCEPT !.i = @ + 1]
    /\ pc' = "idle"
    /\ draws' = 0
    /\ log' = NoLog
    /\ UNCHANGED <<params, lifeEvents, savePath, year, balances, contribs,
                   currentSpending, ssActive, currentSSBenefit, path, result,
                   progressCalls, call, ret>>

\* The trial loop of the batch is over: progress is reported and the call
\* awaits a zero-delay timer
EndBatch ==
    /\ run.pc = "batch"
    /\ pc = "idle"
    /\ ~(run.i < run.batchEnd)
    /\ progressCalls' = IF run.onProgress
                         THEN Append(progressCalls,
                                     progressPercent(run.batchEnd,
                                                     params.numSimulations))
                         ELSE progressCalls
    /\ run' = [run EXCEPT !.pc = "awaiting"]
    /\ UNCHANGED <<trialVars, call, ret, allEndingBalances, samplePaths,
                   trialResults>>

\* The timer fired: the next batch starts, or the call resolves
Resume ==
    /\ run.pc = "awaiting"
    /\ run' = batchHead(run, run.batch + 1, params.numSimulations)
    /\ UNCHANGED <<trialVars, call, ret, allEndingBalances, samplePaths,
                   progressCalls, trialResults>>

NextRun ==
    \/ StartRun
    \/ RunTrial
    \/ AccumulationYear
    \/ EnterDistribution
    \/ DistributionYear
    \/ Return
    \/ Collect
    \/ EndBatch
    \/ Resume

SpecRun == InitRun /\ [][NextRun]_vars

-----------------------------------------------------------------------------
(* Two runSimulations calls on one simulator.  Between two awaits a call   *)
(* runs without interruption, so a step is what a call does from one       *)
(* suspension to the next: a whole batch of trials, each trial a whole     *)
(* runSingleSimulation call.                                               *)

\* The accumulation loop from the given year on, on balances b and the path
\* recorded so far; zs[d] is the pair of uniform draws of the d-th sample.
\* returned: the loop left the function on an unmet deficit
RECURSIVE accumulationLoop(_, _, _, _, _, _, _)
accumulationLoop(p, events, sp, b, trail, yr, zs) ==
    IF ~(yr < p.retirementAge - p.currentAge)
    THEN [returned |-> FALSE, balances |-> b, path |-> trail]
    ELSE LET currentAgeInLoop == p.currentAge + yr
             returnRate == generateNormalRandom(p.expectedReturn, p.returnVolatility,
                                                zs[yr + 1][1], zs[yr + 1][2])
             grown == addContributions(applyMarketReturns(b, returnRate),
                                       initialContribs(p))
             impact == getLifeEventImpact(currentAgeInLoop, events)
             netLifeEventImpact == impact.income - impact.expense
             cascade == accumulationCascade(grown, Abs(netLifeEventImpact))
             after == IF netLifeEventImpact >= 0
                      THEN [grown EXCEPT !.taxable = @ + netLifeEventImpact]
                      ELSE cascade.balances
         IN  IF netLifeEventImpact < 0 /\ cascade.remaining > 0
             THEN [returned |-> TRUE, balances |-> after, path |-> trail]
             ELSE accumulationLoop(p, events, sp, after,
                                   IF sp
                                   THEN Append(trail, [age |-> currentAgeInLoop + 1,
                                                       balance |-> getTotalBalance(after)])
                                   ELSE trail,
                                   yr + 1, zs)

\* The distribution loop from the given year on
RECURSIVE distributionLoop(_, _, _, _, _, _, _, _, _, _)
distributionLoop(p, events, sp, b, trail, spending, active, benefit, yr, zs) ==
    IF ~(yr < p.yearsInRetirement)
    THEN [balances |-> b, path |-> trail]
    ELSE LET currentAgeInLoop == p.retirementAge + yr
             d == p.retirementAge - p.currentAge + yr + 1
             returnRate == generateNormalRandom(p.expectedReturn, p.returnVolatility,
                                                zs[d][1], zs[d][2])
             grown == applyMarketReturns(b, returnRate)
             nowActive == ssActiveAfterCheck(active, p.ssStartAge, currentAgeInLoop)
             ssThisYear == IF nowActive THEN benefit ELSE 0
             impact == getLifeEventImpact(currentAgeInLoop, events)
             needed == spending - ssThisYear - impact.income + impact.expense
             rmd == calculateRMD(grown, currentAgeInLoop)
             taken == IF rmd.required /\ rmd.amount > 0
                      THEN applyRMD(grown, rmd.amount)
                      ELSE [balances |-> grown, remaining |-> 0, withdrawn |-> 0]
             cascade == distributionCascade(taken.balances, needed - taken.withdrawn)
             totalBalance == getTotalBalance(cascade.balances)
             extended == IF sp
                         THEN Append(trail, [age |-> currentAgeInLoop + 1,
                                             balance |-> totalBalance])
                         ELSE trail
         IN  IF totalBalance <= 0
             THEN [balances |-> cascade.balances, path |-> extended]
             ELSE distributionLoop(p, events, sp, cascade.balances, extended,
                                   inflateSpending(spending, p.inflationRate),
                                   nowActive,
                                   inflateSSBenefit(benefit, nowActive, p.inflationRate),
                                   yr + 1, zs)

\* What runSingleSimulation returns after its accumulation loop
afterAccumulation(p, events, sp, acc, zs) ==
    IF acc.returned
    THEN [finalBalance |-> 0, path |-> acc.path]
    ELSE [finalBalance |->
              getTotalBalance(distributionLoop(p, events, sp, acc.balances, acc.path,
                                               p.annualSpending, FALSE,
                                               p.ssAnnualBenefit, 0, zs).balances),
          path |-> distributionLoop(p, events, sp, acc.balances, acc.path,
                                    p.annualSpending, FALSE, p.ssAnnualBenefit,
                                    0, zs).path]

\* runSingleSimulation(savePath) as one step: the result it returns on the
\* draws zs; a null path is <<>>
runSingleSimulation(p, events, sp, zs) ==
    afterAccumulation(p, events, sp,
        accumulationLoop(p, events, sp, initialBalances(p),
                         IF sp
                         THEN <<[age |-> p.currentAge,
                                 balance |-> getTotalBalance(initialBalances(p))]>>
                         ELSE <<>>,
                         0, zs),
        zs)

\* The draws of a trial, one pair a simulated year.  The simulators of the
\* overlapping calls have no volatility, so the sample is the mean whatever
\* the draws are
TrialDraws(p) ==
    [d \in 1..(p.retirementAge - p.currentAge + p.yearsInRetirement) |-> <<1, 0>>]

\* One iteration of the trial loop on this.allEndingBalances and
\* this.samplePaths, i being the loop counter
trialIteration(p, events, s) ==
    [all   |-> pushFinalBalance(s.all,
                   runSingleSimulation(p, events, savePathFor(s.paths), TrialDraws(p))),
     paths |-> pushSamplePath(s.paths, savePathFor(s.paths),
                   runSingleSimulation(p, events, savePathFor(s.paths), TrialDraws(p))),
     i     |-> s.i + 1]

\* The trial loop for (...; i < batchEnd; i++) from s.i on: the iterations
\* in order, the first half of them before the second
RECURSIVE trialLoop(_, _, _, _)
trialLoop(p, events, s, batchEnd) ==
    IF ~(s.i < batchEnd)
    THEN s
    ELSE IF batchEnd - s.i = 1
    THEN trialIteration(p, events, s)
    ELSE trialLoop(p, events,
                   trialLoop(p, events, s, s.i + (batchEnd - s.i) \div 2),
                   batchEnd)

\* The calls on the simulator: the second is made while the first is
\* suspended
Calls == {1, 2}

\* numSimulations of the simulators called twice
OverlapCounts == {31, 1000, 1001, 1500, 2001}

\* new RetirementSimulator(params, []), no call made yet
InitOverlap ==
    /\ \E n \in OverlapCounts : params = WithNumSimulations(SteadyParams, n)
    /\ lifeEvents = <<>>
    /\ savePath = FALSE
    /\ pc = "idle"
    /\ year = 0
    /\ balances = ZeroBalances
    /\ contribs = ZeroBalances
    /\ currentSpending = 0
    /\ ssActive = FALSE
    /\ currentSSBenefit = 0
    /\ path = <<>>
    /\ result = [finalBalance |-> 0, path |-> <<>>]
    /\ draws = 0
    /\ log = NoLog
    /\ call = NoCall
    /\ ret = NoRet
    /\ allEndingBalances = <<>>
    /\ samplePaths = <<>>
    /\ run = [c \in Calls |-> NoRun]
    /\ progressCalls = [c \in Calls |-> <<>>]
    /\ trialResults = <<>>

\* Call c, with the locals r at the head of the batch loop, runs to its next
\* await or to its end on the arrays all and paths: the trials of the batch,
\* the progress report, then the zero-delay timer
runToAwait(c, r, all, paths) ==
    /\ allEndingBalances' =
          IF r.pc = "batch"
          THEN trialLoop(params, lifeEvents,
                         [all |-> all, paths |-> paths, i |-> r.i], r.batchEnd).all
          ELSE all
    /\ samplePaths' =
          IF r.pc = "batch"
          THEN trialLoop(params, lifeEvents,
                         [all |-> all, paths |-> paths, i |-> r.i], r.batchEnd).paths
          ELSE paths
    /\ progressCalls' =
          IF r.pc = "batch" /\ r.onProgress
          THEN [progressCalls EXCEPT
                  ![c] = Append(@, progressPercent(r.batchEnd, params.numSimulations))]
          ELSE progressCalls
    /\ run' = [run EXCEPT ![c] = IF r.pc = "batch"
                                 THEN [r EXCEPT !.pc = "awaiting", !.i = r.batchEnd]
                                 ELSE r]
    /\ UNCHANGED <<trialVars, call, ret, trialResults>>

\* runSimulations(onProgress) is called: the arrays are replaced by empty
\* ones and the first batch runs.  The second call is made while the first
\* is suspended at a batch boundary
StartCall(c) ==
    /\ run[c].pc = "none"
    /\ \A d \in Calls : d < c => run[d].pc = "awaiting"
    /\ \E cb \in BOOLEAN :
         runToAwait(c,
                    batchHead([NoRun EXCEPT !.onProgress = cb,
                                            !.numBatches = Ceil(params.numSimulations,
                                                                batchSize),
                                            !.runs = 1],
                              0, params.numSimulations),
                    <<>>, <<>>)

\* The timer of call c fires: its next batch runs, or the call resolves
ResumeCall(c) ==
    /\ run[c].pc = "awaiting"
    /\ runToAwait(c, batchHead(run[c], run[c].batch + 1, params.numSimulations),
                  allEndingBalances, samplePaths)

NextOverlap ==
    \/ \E c \in Calls : StartCall(c)
    \/ \E c \in Calls : ResumeCall(c)

SpecOverlap == InitOverlap /\ [][NextOverlap]_vars

-----------------------------------------------------------------------------
(* Statistics of a collection of final balances (getStatistics and         *)
(* getHistogramData, standalone and as methods of the simulator) and       *)
(* SocialSecurityCalculator.adjustBenefitForAge.  Quotients that are not   *)
(* whole numbers are kept as fractions in lowest terms.                    *)

Fraction(n, d) ==
    [num |-> n \div GCD(Abs(n), d), den |-> d \div GCD(Abs(n), d)]

RECURSIVE Insert(_, _)
Insert(sorted, x) ==
    IF sorted = <<>> \/ x < Head(sorted)
    THEN <<x>> \o sorted
    ELSE <<Head(sorted)>> \o Insert(Tail(sorted), x)

\* list.sort((a, b) => a - b)
RECURSIVE SortAscending(_)
SortAscending(list) ==
    IF list = <<>> THEN <<>>
    ELSE Insert(SortAscending(SubSeq(list, 1, Len(list) - 1)), list[Len(list)])

\* const sorted = [...endingBalances].sort(...): the input and its sorted copy
sortedCopy(list) == [input |-> list, sorted |-> SortAscending(list)]

RECURSIVE CountPositive(_)
CountPositive(list) ==
    IF list = <<>> THEN 0
    ELSE (IF Head(list) > 0 THEN 1 ELSE 0) + CountPositive(Tail(list))

\* sorted[index] || 0, with the index counted from 0
ElementOrZero(sorted, index) ==
    IF index + 1 \in DOMAIN sorted /\ sorted[index + 1] # 0
    THEN sorted[index + 1] ELSE 0

\* The nearest-rank index taken from the top of the collection
percentileIndexCeil(n, tenths) == Min((n * tenths + 9) \div 10, n - 1)

\* Math.floor(numSimulations * 0.5), * 0.1, * 0.9
percentileIndex(n, tenths) == (n * tenths) \div 10

getStatistics(endingBalances) ==
    IF Len(endingBalances) = 0
    THEN [successRate |-> Fraction(0, 1), median |-> 0, percentile10 |-> 0,
          percentile90 |-> 0]
    ELSE [successRate  |-> Fraction(CountPositive(sortedCopy(endingBalances).sorted) * 100,
                                    Len(endingBalances)),
          median       |-> ElementOrZero(sortedCopy(endingBalances).sorted,
                                         percentileIndex(Len(endingBalances), 5)),
          percentile10 |-> ElementOrZero(sortedCopy(endingBalances).sorted,
                                         percentileIndex(Len(endingBalances), 1)),
          percentile90 |-> ElementOrZero(sortedCopy(endingBalances).sorted,
                                         percentileIndex(Len(endingBalances), 9))]

\* The bin of a balance without the cap at the last bin
binIndexUncapped(balance, min, range, numBins) ==
    IF range = 0 THEN 0 ELSE ((balance - min) * numBins) \div range

\* range === 0 ? 0 : Math.min(Math.floor((balance - min) / binWidth), numBins - 1)
\* with binWidth = range / numBins; counted from 0
binIndex(balance, min, range, numBins) ==
    IF range = 0 THEN 0
    ELSE Min(((balance - min) * numBins) \div range, numBins - 1)

\* for (const balance of sorted) bins[binIndex]++, from element k on
RECURSIVE FillBins(_, _, _, _)
FillBins(bins, sorted, k, numBins) ==
    IF k > Len(sorted) THEN bins
    ELSE FillBins([bins EXCEPT ![binIndex(sorted[k], sorted[1],
                                          sorted[Len(sorted)] - sorted[1],
                                          numBins) + 1] = @ + 1],
                  sorted, k + 1, numBins)

\* labels holds the start of each bin (min + i * binWidth), before formatting
getHistogramData(endingBalances, numBins) ==
    IF Len(endingBalances) = 0
    THEN [labels |-> <<"No Data">>, data |-> <<0>>]
    ELSE [labels |-> [i \in 1..numBins |->
                        IF SortAscending(endingBalances)[Len(endingBalances)]
                             = SortAscending(endingBalances)[1]
                        THEN Fraction(SortAscending(endingBalances)[1] + (i - 1), 1)
                        ELSE Fraction(SortAscending(endingBalances)[1] * numBins
                                        + (i - 1) * (SortAscending(endingBalances)[Len(endingBalances)]
                                                       - SortAscending(endingBalances)[1]),
                                      numBins)],
          data   |-> FillBins([i \in 1..numBins |-> 0],
                              SortAscending(endingBalances), 1, numBins)]

\* Every month of earliness reduces by 5/9 of one percent
adjustBenefitOneRate(pia, claimMonths, fraMonths) ==
    IF claimMonths < fraMonths
    THEN Fraction(pia * (3600 - (fraMonths - claimMonths) * 20), 3600)
    ELSE IF claimMonths > fraMonths
    THEN Fraction(pia * (1200 + 8 * (claimMonths - fraMonths)), 1200)
    ELSE Fraction(pia, 1)

\* adjustBenefitForAge(pia, claimAge, fra) with the two ages given in months:
\* monthsDiff = (claimAge - fra) * 12 = claimMonths - fraMonths.  The early
\* reduction first36 * (5/9) / 100 + (monthsEarly - 36) * (5/12) / 100 is
\* (first36 * 20 + (monthsEarly - 36) * 15) / 3600; the delay credit
\* (monthsDiff / 12) * 0.08 is 8 * monthsDiff / 1200.
adjustBenefitForAge(pia, claimMonths, fraMonths) ==
    IF claimMonths - fraMonths < 0
    THEN Fraction(pia * (3600 - (Min(fraMonths - claimMonths, 36) * 20
                                 + (IF fraMonths - claimMonths > 36
                                    THEN (fraMonths - claimMonths - 36) * 15
                                    ELSE 0))),
                  3600)
    ELSE IF claimMonths - fraMonths > 0
    THEN Fraction(pia * (1200 + 8 * (claimMonths - fraMonths)), 1200)
    ELSE Fraction(pia, 1)

\* SocialSecurityCalculator defaults: the two bend points of the PIA formula
\* and the cap on taxable earnings
bendPoint1 == 1174

bendPoint2 == 7078

maxTaxableEarnings == 168600

\* 42000 times the PIA before rounding, from totalEarnings = cappedIncome *
\* effectiveYears: aime = totalEarnings / (35 * 12), and the three branches
\* aime * 0.9, bendPoint1 * 0.9 + (aime - bendPoint1) * 0.32 and
\* bendPoint1 * 0.9 + (bendPoint2 - bendPoint1) * 0.32 + (aime - bendPoint2) * 0.15
\* are taken at 100 * 420 times their value
piaBeforeRounding(totalEarnings) ==
    IF totalEarnings <= bendPoint1 * 420
    THEN totalEarnings * 90
    ELSE IF totalEarnings <= bendPoint2 * 420
    THEN bendPoint1 * 420 * 90 + (totalEarnings - bendPoint1 * 420) * 32
    ELSE bendPoint1 * 420 * 90 + (bendPoint2 - bendPoint1) * 420 * 32
           + (totalEarnings - bendPoint2 * 420) * 15

\* The average taken over the years worked instead of over 35 years
estimatePIAOverYearsWorked(annualIncome, yearsWorked) ==
    IF Min(yearsWorked, 35) = 0
    THEN 0
    ELSE Round(piaBeforeRounding(Min(annualIncome, maxTaxableEarnings) * 35), 42000)

\* estimatePIA(annualIncome, yearsWorked), Math.round being Round
estimatePIA(annualIncome, yearsWorked) ==
    Round(piaBeforeRounding(Min(annualIncome, maxTaxableEarnings)
                              * Min(yearsWorked, 35)),
          42000)

\* The bracket tables: rate in percent; the last bracket's max is Infinity,
\* kept as the flag unbounded (its max field is not read)
Bracket(min, max, rate) ==
    [min |-> min, max |-> max, rate |-> rate, unbounded |-> FALSE]

TopBracket(min, rate) ==
    [min |-> min, max |-> min, rate |-> rate, unbounded |-> TRUE]

FEDERAL_TAX_BRACKETS_2024 ==
    << Bracket(0, 11600, 10), Bracket(11600, 47150, 12),
       Bracket(47150, 100525, 22), Bracket(100525, 191950, 24),
       Bracket(191950, 243725, 32), Bracket(243725, 609350, 35),
       TopBracket(609350, 37) >>

FEDERAL_TAX_BRACKETS_MFJ_2024 ==
    << Bracket(0, 23200, 10), Bracket(23200, 94300, 12),
       Bracket(94300, 201050, 22), Bracket(201050, 383900, 24),
       Bracket(383900, 487450, 32), Bracket(487450, 731200, 35),
       TopBracket(731200, 37) >>

\* Math.min(remainingIncome, bracket.max - bracket.min)
taxableInBracket(remainingIncome, bracket) ==
    IF bracket.unbounded
    THEN remainingIncome
    ELSE Min(remainingIncome, bracket.max - bracket.min)

\* The loop of calculateFederalTax from bracket i on; tax in hundredths
RECURSIVE bracketLoop(_, _, _, _)
bracketLoop(brackets, i, remainingIncome, tax) ==
    IF i > Len(brackets) \/ remainingIncome <= 0
    THEN tax
    ELSE bracketLoop(brackets, i + 1,
                     remainingIncome - taxableInBracket(remainingIncome, brackets[i]),
                     tax + taxableInBracket(remainingIncome, brackets[i])
                             * brackets[i].rate)

\* Every filing status taxed on the single filer's table
calculateFederalTaxSingleTable(taxableIncome, filingStatus) ==
    Fraction(bracketLoop(FEDERAL_TAX_BRACKETS_2024, 1, taxableIncome, 0), 100)

\* calculateFederalTax(taxableIncome, filingStatus)
calculateFederalTax(taxableIncome, filingStatus) ==
    Fraction(bracketLoop(IF filingStatus = "mfj"
                         THEN FEDERAL_TAX_BRACKETS_MFJ_2024
                         ELSE FEDERAL_TAX_BRACKETS_2024,
                         1, taxableIncome, 0),
             100)

\* RetirementSimulator.getStatistics(): the same computation on
\* this.allEndingBalances
simulatorStatistics == getStatistics(allEndingBalances)

-----------------------------------------------------------------------------
(* The pure functions called on their own *)

\* Longest collection of balances of which every filling is tried
MaxListLen == 4

\* Largest bin count tried
MaxBins == 4

\* Longest life-event list tried
MaxEvents == 2

StatValues == {-4, 0, 3, 7}

ShortLists == UNION { [1..n -> StatValues] : n \in 0..MaxListLen }

\* Collections of 10 to 12 distinct balances in a scrambled order
LongLists ==
    { [j \in 1..n |-> ((j * step) % 13) * 5 - 10] : n \in 10..12, step \in 1..12 }

StatLists == ShortLists \cup LongLists

EventChoices ==
    { LifeEvent(type, amount, startAge, duration) :
        type \in {"expense", "income"}, amount \in {20, 50},
        startAge \in {65, 66}, duration \in {1, 2} }

EventLists == UNION { [1..n -> EventChoices] : n \in 0..MaxEvents }

ImpactAges == 64..68

PIAValues == {0, 1000, 2000}

\* Full retirement ages 65 and 2 months, 66, 67, in months
FRAMonths == {782, 792, 804}

\* Claiming ages 60 to 70, in months
ClaimMonths == 720..840

\* Incomes at, just below and just above the values that put the average
\* at a bend point, and around the cap on taxable earnings
PIAIncomes ==
    {0, 1, 12000, 14088, 14089, 50000, 84936, 84937, 120000, 168599, 168600,
     168601, 250000}

PIAYears == {0, 1, 20, 34, 35, 36, 45}

\* Taxable incomes at and around the edges of both bracket tables
TaxableIncomes ==
    {-500, 0, 1, 11600, 11601, 23200, 23250, 47150, 50000, 94300, 100525,
     150000, 191950, 201050, 243725, 383900, 400000, 487450, 609350, 609450,
     731200, 1000000}

FilingStatuses == {"single", "mfj"}

InitFunctions ==
    /\ IdleTrial
    /\ IdleRun
    /\ \/ \E list \in StatLists : call = [op |-> "getStatistics", list |-> list]
       \/ \E list \in StatLists, numBins \in 1..MaxBins :
            call = [op |-> "getHistogramData", list |-> list, numBins |-> numBins]
       \/ \E age \in ImpactAges, events \in EventLists :
            call = [op |-> "getLifeEventImpact", age |-> age, events |-> events]
       \/ \E pia \in PIAValues, claim \in ClaimMonths, fra \in FRAMonths :
            call = [op |-> "adjustBenefitForAge", pia |-> pia, claimAge |-> claim,
                    fra |-> fra]
       \/ \E income \in PIAIncomes, years \in PIAYears :
            call = [op |-> "estimatePIA", annualIncome |-> income,
                    yearsWorked |-> years]
       \/ \E income \in TaxableIncomes, status \in FilingStatuses :
            call = [op |-> "calculateFederalTax", taxableIncome |-> income,
                    filingStatus |-> status]
    /\ ret = [done |-> FALSE]

CallGetStatistics ==
    /\ call.op = "getStatistics"
    /\ ~ret.done
    /\ ret' = [done |-> TRUE, list |-> sortedCopy(call.list).input,
               value |-> getStatistics(call.list)]
    /\ UNCHANGED <<trialVars, call, runVars>>

CallGetHistogramData ==
    /\ call.op = "getHistogramData"
    /\ ~ret.done
    /\ ret' = [done |-> TRUE, list |-> sortedCopy(call.list).input,
               value |-> getHistogramData(call.list, call.numBins)]
    /\ UNCHANGED <<trialVars, call, runVars>>

\* getLifeEventImpact only reads the events it is given
CallGetLifeEventImpact ==
    /\ call.op = "getLifeEventImpact"
    /\ ~ret.done
    /\ ret' = [done |-> TRUE, events |-> call.events,
               value |-> getLifeEventImpact(call.age, call.events)]
    /\ UNCHANGED <<trialVars, call, runVars>>

CallAdjustBenefitForAge ==
    /\ call.op = "adjustBenefitForAge"
    /\ ~ret.done
    /\ ret' = [done |-> TRUE,
               value |-> adjustBenefitForAge(call.pia, call.claimAge, call.fra)]
    /\ UNCHANGED <<trialVars, call, runVars>>

CallEstimatePIA ==
    /\ call.op = "estimatePIA"
    /\ ~ret.done
    /\ ret' = [done |-> TRUE,
               value |-> estimatePIA(call.annualIncome, call.yearsWorked)]
    /\ UNCHANGED <<trialVars, call, runVars>>

CallCalculateFederalTax ==
    /\ call.op = "calculateFederalTax"
    /\ ~ret.done
    /\ ret' = [done |-> TRUE,
               value |-> calculateFederalTax(call.taxableIncome, call.filingStatus)]
    /\ UNCHANGED <<trialVars, call, runVars>>

NextFunctions ==
    \/ CallGetStatistics
    \/ CallGetHistogramData
    \/ CallGetLifeEventImpact
    \/ CallAdjustBenefitForAge
    \/ CallEstimatePIA
    \/ CallCalculateFederalTax

SpecFunctions == InitFunctions /\ [][NextFunctions]_vars

-----------------------------------------------------------------------------
(* Transfer detection: detectTransfers called on one list of transactions *)

\* TRANSFER_CONFIG: days between the two dates, and the amount tolerance
\* 0.01 in cents
DAYS_TOLERANCE == 3

AMOUNT_TOLERANCE == 1

\* A transaction: amount in cents, date as a day number, description by what
\* isTransferPair reads of it (a strong keyword, an account reference);
\* transferMatch null is "null"
Transaction(id, amount, date, description, manual, isTransfer, transferMatch) ==
    [id |-> id, amount |-> amount, date |-> date, description |-> description,
     manuallyUnmarkedTransfer |-> manual, isTransfer |-> isTransfer,
     transferMatch |-> transferMatch]

\* strongTransferKeywords.some(kw => desc1.includes(kw) || desc2.includes(kw))
hasStrongKeyword(t1, t2) ==
    t1.description = "keyword" \/ t2.description = "keyword"

\* accountPatterns.some(p => p.test(t1.description) || p.test(t2.description))
hasAccountRef(t1, t2) ==
    t1.description = "accountRef" \/ t2.description = "accountRef"

\* isTransferPair(t1, t2)
isTransferPair(t1, t2) ==
    /\ Abs(Abs(t1.amount) - Abs(t2.amount)) <= AMOUNT_TOLERANCE
    /\ (t1.amount > 0) # (t2.amount > 0)
    /\ ~(Abs(t1.date - t2.date) > DAYS_TOLERANCE)
    /\ \/ hasStrongKeyword(t1, t2)
       \/ Abs(t1.date - t2.date) = 0 /\ hasAccountRef(t1, t2)

\* The forEach that resets the marks, manual overrides kept
resetMarks(transactions) ==
    [i \in DOMAIN transactions |->
        IF transactions[i].manuallyUnmarkedTransfer
        THEN transactions[i]
        ELSE [transactions[i] EXCEPT !.isTransfer = FALSE,
                                     !.transferMatch = "null"]]

\* t1 and t2 marked as each other's match
markPair(transactions, i, j) ==
    [transactions EXCEPT
        ![i] = [@ EXCEPT !.isTransfer = TRUE,
                         !.transferMatch = transactions[j].id],
        ![j] = [@ EXCEPT !.isTransfer = TRUE,
                         !.transferMatch = transactions[i].id]]

\* The inner loop without the test of t2.isTransfer
RECURSIVE innerLoopAnyPartner(_, _, _)
innerLoopAnyPartner(transactions, i, j) ==
    IF j > Len(transactions)
    THEN transactions
    ELSE IF transactions[j].manuallyUnmarkedTransfer
    THEN innerLoopAnyPartner(transactions, i, j + 1)
    ELSE IF isTransferPair(transactions[i], transactions[j])
    THEN markPair(transactions, i, j)
    ELSE innerLoopAnyPartner(transactions, i, j + 1)

\* The inner loop of detectTransfers from index j on (indices from 1)
RECURSIVE innerLoop(_, _, _)
innerLoop(transactions, i, j) ==
    IF j > Len(transactions)
    THEN transactions
    ELSE IF transactions[j].isTransfer \/ transactions[j].manuallyUnmarkedTransfer
    THEN innerLoop(transactions, i, j + 1)
    ELSE IF isTransferPair(transactions[i], transactions[j])
    THEN markPair(transactions, i, j)
    ELSE innerLoop(transactions, i, j + 1)

\* The outer loop of detectTransfers from index i on
RECURSIVE outerLoop(_, _)
outerLoop(transactions, i) ==
    IF i > Len(transactions)
    THEN transactions
    ELSE IF transactions[i].isTransfer \/ transactions[i].manuallyUnmarkedTransfer
    THEN outerLoop(transactions, i + 1)
    ELSE outerLoop(innerLoop(transactions, i, i + 1), i + 1)

\* detectTransfers(transactions): the array after the call
detectTransfers(transactions) == outerLoop(resetMarks(transactions), 1)

\* Longest transaction list tried
MaxTransactions == 3

\* Calls of detectTransfers on the same list
MaxDetectCalls == 2

\* Amount, date and description of the transactions tried
TransactionShapes ==
    { <<50000, 1, "keyword">>, <<-50000, 1, "none">>, <<-50001, 4, "none">>,
      <<-50002, 1, "keyword">>, <<50000, 1, "accountRef">>,
      <<-50000, 5, "accountRef">> }

\* What the list holds before the call: nothing, the manual override, or
\* the mark of an earlier detection
TransactionMarks == {"plain", "manual", "stale"}

\* The ids of the transactions of a list, all different
TransactionIds == <<"1", "2", "3", "4", "5">>

\* The transaction at position i of a list of n, of a shape and a mark; a
\* stale mark names the next transaction of the list
TransactionAt(i, n, shape, mark) ==
    Transaction(TransactionIds[i], shape[1], shape[2], shape[3],
                mark = "manual", mark = "stale",
                IF mark = "stale" THEN TransactionIds[(i % n) + 1] ELSE "null")

\* The list of n transactions of the chosen shapes and marks
TransactionList(n, choice) ==
    [i \in 1..n |-> TransactionAt(i, n, choice[i][1], choice[i][2])]

InitTransfers ==
    /\ IdleTrial
    /\ IdleRun
    /\ \E n \in 0..MaxTransactions :
         \E choice \in [1..n -> TransactionShapes \X TransactionMarks] :
            /\ call = [op |-> "detectTransfers",
                       transactions |-> TransactionList(n, choice)]
            /\ ret = [calls |-> 0, before |-> TransactionList(n, choice),
                      value |-> TransactionList(n, choice)]

\* One call of detectTransfers on the list as the last call left it
CallDetectTransfers ==
    /\ call.op = "detectTransfers"
    /\ ret.calls < MaxDetectCalls
    /\ ret' = [calls |-> ret.calls + 1, before |-> ret.value,
               value |-> detectTransfers(ret.value)]
    /\ UNCHANGED <<trialVars, call, runVars>>

NextTransfers == CallDetectTransfers

SpecTransfers == InitTransfers /\ [][NextTransfers]_vars

-----------------------------------------------------------------------------
(* Session import: SessionManager.importSession called on one session *)

\* A JavaScript value by what the import reads of it: undefined, an object
\* or an array with its keys or elements, or a string
Undefined == [kind |-> "undefined", items |-> <<>>]

Obj(items) == [kind |-> "object", items |-> items]

Arr(items) == [kind |-> "array", items |-> items]

Str == [kind |-> "string", items |-> <<>>]

\* if (v)
truthy(v) == v.kind # "undefined"

\* typeof v === 'object'
isObject(v) == v.kind \in {"object", "array"}

\* Array.isArray(v)
isArray(v) == v.kind = "array"

\* typeof v === 'string'
isString(v) == v.kind = "string"

\* SessionManager.STORAGE_KEYS, by section
STORAGE_KEYS ==
    [budgetPlanner      |-> "budgetPlannerData",
     budgetRetirement   |-> "budgetRetirementData",
     spendingTracker    |-> "spendingTrackerData",
     transactionRules   |-> "transactionRules",
     transactionData    |-> "transactionData",
     bankFormat         |-> "bankFormat",
     aiProvider         |-> "aiProvider",
     retirementForecast |-> "retirementForecastData",
     lifeEvents         |-> "lifeEventsData"]

StorageKeys == { STORAGE_KEYS[section] : section \in DOMAIN STORAGE_KEYS }

\* StorageUtils.set(key, value): localStorage.setItem throws when the quota
\* is exceeded, and the catch leaves the storage as it was
StorageSet(storage, full, key, value) ==
    IF full THEN storage ELSE [storage EXCEPT ![key] = value]

\* Append e to list if cond
PushIf(list, cond, e) == IF cond THEN Append(list, e) ELSE list

\* _validateSessionSchema(session).warnings
schemaWarnings(session) ==
    PushIf(<<>>, ~truthy(session.version),
           "Session file missing version - attempting import anyway")

\* _validateSessionSchema(session).errors
schemaErrors(session) ==
    PushIf(PushIf(PushIf(PushIf(PushIf(<<>>,
        truthy(session.budgetPlanner) /\ ~isObject(session.budgetPlanner),
        "Invalid budget planner data format"),
        truthy(session.spendingTracker) /\ ~isObject(session.spendingTracker),
        "Invalid spending tracker data format"),
        truthy(session.lifeEvents) /\ ~isArray(session.lifeEvents),
        "Life events must be an array"),
        truthy(session.transactionRules)
          /\ (~isObject(session.transactionRules) \/ isArray(session.transactionRules)),
        "Transaction rules must be an object"),
        truthy(session.transactionData) /\ ~isArray(session.transactionData),
        "Transaction data must be an array")

\* One import block: if (cond) { StorageUtils.set(key, value);
\* result.imported.push(label); }
importSection(s, cond, key, value, label) ==
    IF cond
    THEN [s EXCEPT !.storage = StorageSet(s.storage, s.full, key, value),
                   !.imported = Append(s.imported, label)]
    ELSE s

\* The block of the bank format: if (cond) { StorageUtils.set(key, value); }
importPreference(s, cond, key, value) ==
    IF cond
    THEN [s EXCEPT !.storage = StorageSet(s.storage, s.full, key, value)]
    ELSE s

\* session.lifeEvents.filter(...): an event is kept when it is an object
\* with a numeric amount and startAge and the type 'expense' or 'income'
validEvents(events) == SelectSeq(events, LAMBDA event : event = "valid")

\* The block of the life events: the skipped ones are warned about, the
\* valid ones are stored if there is any
importLifeEvents(s, session) ==
    IF truthy(session.lifeEvents) /\ isArray(session.lifeEvents)
    THEN importSection(
             [s EXCEPT !.warnings =
                 PushIf(@, Len(validEvents(session.lifeEvents.items))
                             # Len(session.lifeEvents.items),
                        "invalid life events were skipped")],
             Len(validEvents(session.lifeEvents.items)) > 0,
             STORAGE_KEYS.lifeEvents,
             Arr(validEvents(session.lifeEvents.items)),
             "life events")
    ELSE s

\* The import blocks of importSession in the order of the code
importBlocks(s, session) ==
    importLifeEvents(
    importSection(
    importSection(
    importPreference(
    importSection(
    importSection(
    importSection(
    importSection(
    importSection(s,
        truthy(session.budgetPlanner) /\ isObject(session.budgetPlanner),
        STORAGE_KEYS.budgetPlanner, session.budgetPlanner,
        "Budget Planner settings"),
        truthy(session.budgetRetirement) /\ isObject(session.budgetRetirement),
        STORAGE_KEYS.budgetRetirement, session.budgetRetirement,
        "Retirement contribution settings"),
        truthy(session.spendingTracker) /\ isObject(session.spendingTracker),
        STORAGE_KEYS.spendingTracker, session.spendingTracker,
        "Spending Tracker data"),
        /\ truthy(session.transactionRules)
        /\ isObject(session.transactionRules)
        /\ ~isArray(session.transactionRules)
        /\ Len(session.transactionRules.items) > 0,
        STORAGE_KEYS.transactionRules, session.transactionRules,
        "Transaction categorization rules"),
        /\ truthy(session.transactionData)
        /\ isArray(session.transactionData)
        /\ Len(session.transactionData.items) > 0,
        STORAGE_KEYS.transactionData, session.transactionData,
        "transactions"),
        truthy(session.bankFormat) /\ isString(session.bankFormat),
        STORAGE_KEYS.bankFormat, session.bankFormat),
        truthy(session.aiProvider) /\ isString(session.aiProvider),
        STORAGE_KEYS.aiProvider, session.aiProvider,
        "AI provider preference"),
        truthy(session.retirementForecast) /\ isObject(session.retirementForecast),
        STORAGE_KEYS.retirementForecast, session.retirementForecast,
        "Retirement Forecast settings"),
        session)

\* The result object with success = imported.length > 0
importResult(s) ==
    [storage |-> s.storage,
     result  |-> [success |-> Len(s.imported) > 0, warnings |-> s.warnings,
                  errors |-> <<>>, imported |-> s.imported]]

\* importSession(session) on a storage: the storage after the call and the
\* result returned
importSession(session, storage, full) ==
    IF Len(schemaErrors(session)) # 0
    THEN [storage |-> storage,
          result  |-> [success |-> FALSE, warnings |-> schemaWarnings(session),
                       errors |-> schemaErrors(session), imported |-> <<>>]]
    ELSE importResult(importBlocks([storage |-> storage, full |-> full,
                                    imported |-> <<>>,
                                    warnings |-> schemaWarnings(session)],
                                   session))

\* The values tried for the sections of a session
SettingsValues == {Undefined, Obj(<<"income">>), Str}

ObjectValues == {Undefined, Obj(<<"income">>)}

RulesValues == {Undefined, Obj(<<>>), Obj(<<"rule">>), Arr(<<"rule">>)}

DataValues == {Undefined, Arr(<<>>), Arr(<<"transaction">>), Str}

PreferenceValues == {Undefined, Str}

LifeEventsValues ==
    {Undefined, Arr(<<>>), Arr(<<"valid">>), Arr(<<"valid", "invalid">>),
     Arr(<<"invalid">>), Str}

Sessions ==
    [version            : PreferenceValues,
     budgetPlanner      : SettingsValues,
     budgetRetirement   : SettingsValues,
     spendingTracker    : ObjectValues,
     transactionRules   : RulesValues,
     transactionData    : DataValues,
     bankFormat         : PreferenceValues,
     aiProvider         : PreferenceValues,
     retirementForecast : ObjectValues,
     lifeEvents         : LifeEventsValues]

\* A storage in which every key holds an earlier value
EarlierStorage == [key \in StorageKeys |-> [kind |-> "earlier", items |-> <<>>]]

InitImport ==
    /\ IdleTrial
    /\ IdleRun
    /\ \E session \in Sessions, full \in BOOLEAN :
         call = [op |-> "importSession", session |-> session,
                 storage |-> EarlierStorage, full |-> full]
    /\ ret = [done |-> FALSE]

CallImportSession ==
    /\ call.op = "importSession"
    /\ ~ret.done
    /\ ret' = [done    |-> TRUE,
               storage |-> importSession(call.session, call.storage, call.full).storage,
               value   |-> importSession(call.session, call.storage, call.full).result]
    /\ UNCHANGED <<trialVars, call, runVars>>

NextImport == CallImportSession

SpecImport == InitImport /\ [][NextImport]_vars

-----------------------------------------------------------------------------
(* Properties of the ledger helpers, under SpecHelpers *)

WithdrawOrder ==
    <<"taxable", "traditional401k", "traditionalIRA", "roth401k", "rothIRA">>

\* Sum of the balances b of the first n accounts of the withdrawal order
RECURSIVE PrefixSum(_, _)
PrefixSum(b, n) == IF n = 0 THEN 0 ELSE b[WithdrawOrder[n]] + PrefixSum(b, n - 1)

Withdrew == ret.done /\ call.op = "withdrawFromAccounts"

\* C1: for non-negative balances and an amount >= 0, withdrawFromAccounts
\* leaves every balance >= 0, returns a remainder r with 0 <= r <= amount,
\* the balances sum to (sum before) - (amount - r), and r > 0 only if all
\* five balances are 0 afterwards.
C1_WithdrawConserves ==
    (Withdrew /\ call.arg >= 0 /\ \A a \in Accounts : call.balances[a] >= 0) =>
        /\ \A a \in Accounts : ret.balances[a] >= 0
        /\ 0 <= ret.value /\ ret.value <= call.arg
        /\ getTotalBalance(ret.balances)
             = getTotalBalance(call.balances) - (call.arg - ret.value)
        /\ ret.value > 0 => \A a \in Accounts : ret.balances[a] = 0

\* A call that left a shortfall after emptying accounts that held money
C1_Witness ==
    /\ Withdrew
    /\ ret.value > 0
    /\ ret.value < call.arg
    /\ Cardinality({a \in Accounts : call.balances[a] > 0}) >= 2

\* C2: withdrawFromAccounts draws in the order taxable, traditional401k,
\* traditionalIRA, roth401k, rothIRA, each account giving min(balance, what
\* is still needed); a balance is reduced only if every earlier account is
\* at 0, and the accounts after the one where the need was met are unchanged.
C2_WithdrawOrder ==
    Withdrew =>
        \A j \in 1..5 :
            LET acct == WithdrawOrder[j]
                before == PrefixSum(call.balances, j - 1)
            IN  /\ call.balances[acct] - ret.balances[acct]
                     = Min(call.balances[acct], Max(0, call.arg - before))
                /\ ret.balances[acct] < call.balances[acct] =>
                     \A i \in 1..(j - 1) : ret.balances[WithdrawOrder[i]] = 0
                /\ before >= call.arg => ret.balances[acct] = call.balances[acct]

\* A call that emptied taxable, took part of traditional401k and left the
\* three later accounts, which hold money, alone
C2_Witness ==
    /\ Withdrew
    /\ call.balances.taxable > 0 /\ ret.balances.taxable = 0
    /\ ret.balances.traditional401k > 0
    /\ ret.balances.traditional401k < call.balances.traditional401k
    /\ ret.balances.traditionalIRA > 0
    /\ ret.balances.roth401k > 0
    /\ ret.balances.rothIRA > 0
    /\ ret.value = 0

AppliedRMD == ret.done /\ call.op = "applyRMD"

\* C7: applyRMD changes only traditional401k and traditionalIRA, takes from
\* traditional401k first and from traditionalIRA only once traditional401k
\* is exhausted, makes neither negative, returns min(rmdAmount,
\* traditional401k + traditionalIRA) for non-negative inputs, and leaves
\* roth401k, rothIRA and taxable unchanged.
C7_ApplyRMDFrame ==
    AppliedRMD =>
        LET b == call.balances
            after == ret.balances
        IN  /\ after.roth401k = b.roth401k
            /\ after.rothIRA = b.rothIRA
            /\ after.taxable = b.taxable
            /\ b.traditional401k - after.traditional401k
                 = Min(b.traditional401k, Max(0, call.arg))
            /\ b.traditionalIRA - after.traditionalIRA
                 = Min(b.traditionalIRA, Max(0, call.arg - b.traditional401k))
            /\ after.traditionalIRA < b.traditionalIRA => after.traditional401k = 0
            /\ after.traditional401k >= 0 /\ after.traditionalIRA >= 0
            /\ call.arg >= 0 =>
                 ret.value = Min(call.arg, b.traditional401k + b.traditionalIRA)

\* A call that emptied traditional401k and took part of traditionalIRA while
\* the other three accounts hold money
C7_Witness ==
    /\ AppliedRMD
    /\ call.balances.traditional401k > 0 /\ ret.balances.traditional401k = 0
    /\ ret.balances.traditionalIRA > 0
    /\ ret.balances.traditionalIRA < call.balances.traditionalIRA
    /\ call.balances.roth401k > 0 /\ call.balances.rothIRA > 0
    /\ call.balances.taxable > 0
    /\ ret.value = call.arg

CalculatedRMD == ret.done /\ call.op = "calculateRMD"

\* C8: calculateRMD reports amount 0 for every age below 73; for every age
\* >= 73 its amount is (traditional401k + traditionalIRA) divided by the
\* table period for min(age, 120) (2.0 above 120), truncated to the money
\* unit; the period does not increase with age from 73 through the table;
\* Roth and taxable balances do not enter the amount.
C8_CalculateRMD ==
    /\ \A a \in 73..119 : RMD_TABLE[a + 1] <= RMD_TABLE[a]
    /\ CalculatedRMD =>
         LET age == call.arg
             pretax == call.balances.traditional401k + call.balances.traditionalIRA
             period == IF age > 120 THEN 20 ELSE RMD_TABLE[Min(age, 120)]
         IN  /\ age < 73 => ret.value = 0 /\ ~ret.required
             /\ age >= 73 =>
                  /\ ret.required
                  /\ ret.value * period <= pretax * 10
                  /\ pretax * 10 < (ret.value + 1) * period

\* An RMD computed above the top of the table, with Roth and taxable money
\* in the accounts
C8_Witness ==
    /\ CalculatedRMD
    /\ call.arg > 120
    /\ ret.value > 0
    /\ 2 * ret.value = call.balances.traditional401k + call.balances.traditionalIRA
    /\ call.balances.roth401k > 0 /\ call.balances.taxable > 0

-----------------------------------------------------------------------------
(* Properties of a trial, under Spec *)

\* C3: from non-negative initial balances and contributions, none of the
\* five balances is ever negative during a trial, whatever return rates are
\* sampled.
C3_BalancesNeverNegative ==
    \A a \in Accounts : balances[a] >= 0 /\ log.afterReturn[a] >= 0

\* C4: every returned finalBalance is >= 0, and it is exactly 0 whenever the
\* distribution loop ended early on a total balance <= 0.
C4_FinalBalanceNonNegative ==
    pc = "done" =>
        /\ result.finalBalance >= 0
        /\ (log.phase = "distribution" /\ log.early) => result.finalBalance = 0

\* C5: an accumulation year whose life-event deficit exceeds the sum of the
\* five balances (after that year's return and contributions) returns at
\* once with finalBalance 0: no later year is simulated, no further sample
\* is drawn and the path has no point for that year or a later one; a
\* deficit the cascade covers in full lets the trial continue.
C5_AccumulationShortfall ==
    log.phase = "accumulation" =>
        /\ (log.need > 0 /\ log.need > getTotalBalance(log.afterReturn)) =>
             /\ pc = "done"
             /\ result.finalBalance = 0
             /\ draws = log.k + 1
             /\ savePath =>
                  /\ Len(result.path) = log.k + 1
                  /\ \A i \in 1..Len(result.path) : result.path[i].age <= log.age
        /\ (log.need > 0 /\ log.remaining = 0) => ~log.early

\* C6: in a distribution year the RMD is applied first and counts toward the
\* net spending need, so the total taken out of the accounts in the year is
\* max(RMD withdrawn, min(net spending need, total balance before the
\* withdrawals)).
C6_RMDCountsTowardSpending ==
    log.phase = "distribution" =>
        getTotalBalance(log.afterReturn) - getTotalBalance(balances)
          = Max(log.rmdWithdrawn, Min(log.need, getTotalBalance(log.afterReturn)))

\* C9: Social Security income is 0 in every distribution year whose age is
\* below the configured start age, and once it has been counted in a
\* distribution year it is counted in every later year of the trial.
C9_SocialSecurityOneWay ==
    /\ [](log.phase = "distribution" =>
            (log.age < params.ssStartAge => log.ssThisYear = 0))
    /\ [][(log.phase = "distribution" /\ log.ssOn
           /\ log'.phase = "distribution" /\ log'.k > log.k)
          => (log'.ssOn /\ ssActive' /\ log'.ssThisYear = log'.ssBenefit)]_vars

\* Social Security counted in a year after the year it started in
C9_Witness ==
    /\ log.phase = "distribution"
    /\ log.k >= 1
    /\ params.ssStartAge # 0
    /\ log.age > params.ssStartAge
    /\ log.ssThisYear > 0

\* (1 + inflationRate / 100) in lowest terms
InflationNum ==
    (100 + params.inflationRate) \div GCD(100 + params.inflationRate, 100)

InflationDen == 100 \div GCD(100 + params.inflationRate, 100)

\* Number of distribution years before year k in which Social Security is active
ActiveYearsBefore(k) ==
    Cardinality({j \in 0..(k - 1) :
                   params.ssStartAge # 0 /\ params.retirementAge + j >= params.ssStartAge})

\* C10 as stated: in distribution year k spending is annualSpending x (1+i)^k
\* and the Social Security benefit is ssAnnualBenefit x (1+i)^k.
C10_BothInflateEveryYear ==
    log.phase = "distribution" =>
        /\ log.spending * Pow(InflationDen, log.k)
             = params.annualSpending * Pow(InflationNum, log.k)
        /\ log.ssBenefit * Pow(InflationDen, log.k)
             = params.ssAnnualBenefit * Pow(InflationNum, log.k)

\* C10 amended: spending is multiplied by (1 + inflationRate/100) at the end
\* of every distribution year, the Social Security benefit only at the end
\* of the years in which Social Security is active; in distribution year k
\* spending is annualSpending x (1+i)^k and the benefit is ssAnnualBenefit x
\* (1+i)^n, n the number of earlier distribution years with Social Security
\* active.
C10_InflationAmended ==
    /\ log.phase = "distribution" =>
         LET n == ActiveYearsBefore(log.k)
         IN  /\ log.spending * Pow(InflationDen, log.k)
                  = params.annualSpending * Pow(InflationNum, log.k)
             /\ log.ssBenefit * Pow(InflationDen, n)
                  = params.ssAnnualBenefit * Pow(InflationNum, n)
    /\ pc = "distribution" =>
         LET n == ActiveYearsBefore(year)
         IN  /\ currentSpending * Pow(InflationDen, year)
                  = params.annualSpending * Pow(InflationNum, year)
             /\ currentSSBenefit * Pow(InflationDen, n)
                  = params.ssAnnualBenefit * Pow(InflationNum, n)

\* A second distribution year under inflation, in which Social Security has
\* just started: spending has grown, the benefit has not
C10_Witness ==
    /\ log.phase = "distribution"
    /\ log.k = 1
    /\ params.inflationRate > 0
    /\ log.ssOn
    /\ log.age = params.ssStartAge
    /\ log.spending > params.annualSpending
    /\ log.ssBenefit = params.ssAnnualBenefit
    /\ log.ssBenefit > 0

-----------------------------------------------------------------------------
(* Properties of runSimulations, under SpecRun *)

Resolved == run.pc = "resolved"

\* C11: when a runSimulations call resolves, allEndingBalances holds exactly
\* numSimulations values: the final balance of each trial of this call, in
\* trial order, a failed trial contributing its value like any other; what
\* an earlier call on the same simulator collected is gone.
C11_OneBalancePerTrial ==
    Resolved =>
        /\ Len(allEndingBalances) = params.numSimulations
        /\ Len(trialResults) = params.numSimulations
        /\ \A j \in 1..Len(allEndingBalances) :
             allEndingBalances[j] = trialResults[j].finalBalance

\* The second call on a simulator resolved with a failed trial and a funded one
C11_Witness ==
    /\ Resolved
    /\ run.runs = 2
    /\ Len(allEndingBalances) = 2
    /\ \E j, k \in 1..Len(trialResults) :
         trialResults[j].finalBalance = 0 /\ trialResults[k].finalBalance > 0

\* Batches completed by the call so far
BatchesDone ==
    CASE run.pc = "batch" -> run.batch
      [] run.pc = "awaiting" -> run.batch + 1
      [] run.pc = "resolved" -> run.numBatches
      [] OTHER -> 0

TrialsDoneAfter(b) == Min(b * 1000, params.numSimulations)

\* p is x = 100 * done / numSimulations rounded to the nearest integer
IsRounded(p, done) ==
    /\ 2 * p * params.numSimulations - params.numSimulations <= 200 * done
    /\ 200 * done < 2 * p * params.numSimulations + params.numSimulations

\* C12: trials run in batches of 1,000 (the last may be smaller); after each
\* batch, and only then, the progress callback is invoked once with
\* round(100 * trialsDone / numSimulations), and the call then waits for the
\* event loop before the next batch; the callback is invoked
\* ceil(numSimulations / 1000) times, with non-decreasing values ending in 100.
C12_BatchesAndProgress ==
    /\ [](/\ run.onProgress => Len(progressCalls) = BatchesDone
          /\ \A b \in 1..Len(progressCalls) :
               IsRounded(progressCalls[b], TrialsDoneAfter(b))
          /\ \A b \in 1..(Len(progressCalls) - 1) :
               progressCalls[b] <= progressCalls[b + 1]
          /\ run.pc = "awaiting" =>
               Len(allEndingBalances) = TrialsDoneAfter(run.batch + 1)
          /\ (Resolved /\ run.onProgress) =>
               /\ Len(progressCalls) = Ceil(params.numSimulations, 1000)
               /\ Len(progressCalls) > 0 =>
                    progressCalls[Len(progressCalls)] = 100)
    /\ [][/\ Len(progressCalls') > Len(progressCalls) =>
               /\ Len(progressCalls') = Len(progressCalls) + 1
               /\ run.pc = "batch" /\ run'.pc = "awaiting"
               /\ Len(allEndingBalances) = TrialsDoneAfter(run.batch + 1)
          /\ (run.pc # "none" /\ pc = "idle" /\ pc' = "accumulation") =>
               /\ run.pc = "batch"
               /\ Len(allEndingBalances) >= TrialsDoneAfter(run.batch)
               /\ Len(allEndingBalances) < TrialsDoneAfter(run.batch + 1)
               /\ run.onProgress => Len(progressCalls) = run.batch]_vars

\* A batch of 31 trials is over: the callback got 100 and the call is
\* waiting for the event loop, with no trial running
C12_Witness ==
    /\ run.pc = "awaiting"
    /\ run.onProgress
    /\ pc = "idle"
    /\ Len(allEndingBalances) = 31
    /\ progressCalls = <<100>>

\* C13: samplePaths never holds more than 30 trajectories; when the call
\* resolves it holds min(30, numSimulations) of them, the recorded paths of
\* the first trials in trial order, those of early failures included.
C13_SamplePathsCapped ==
    /\ Len(samplePaths) <= 30
    /\ Resolved =>
         /\ Len(samplePaths) = Min(30, params.numSimulations)
         /\ \A j \in 1..Len(samplePaths) :
              /\ trialResults[j].path # <<>>
              /\ samplePaths[j] = trialResults[j].path

\* More than 30 trials ran and the paths of the first 30 were kept
C13_Witness ==
    /\ Resolved
    /\ Len(trialResults) > 30
    /\ Len(samplePaths) = 30
    /\ \A j \in 31..Len(trialResults) : trialResults[j].path = <<>>

\* The scenario currentAge 30, retirementAge 65, expectedReturn 7,
\* currentSavings 100000, annualContribution 10000, 10 trials
IsReferenceScenario ==
    /\ params.currentAge = 30
    /\ params.retirementAge = 65
    /\ params.expectedReturn = 7
    /\ params.currentSavings = 100000
    /\ params.annualContribution = 10000
    /\ params.numSimulations = 10

\* C14: with returnVolatility = 0 every return sample is expectedReturn,
\* whatever the two uniform draws are, so every trial of a simulator returns
\* the same finalBalance; in the reference scenario that value is positive
\* and the success rate is 100.
C14_ZeroVolatility ==
    params.returnVolatility = 0 =>
        /\ log.phase # "none" => log.returnRate = params.expectedReturn
        /\ (pc = "done" /\ trialResults # <<>>) =>
             result.finalBalance = trialResults[1].finalBalance
        /\ Resolved =>
             \A j \in 1..Len(allEndingBalances) :
                allEndingBalances[j] = allEndingBalances[1]
        /\ (Resolved /\ IsReferenceScenario) =>
             /\ Len(allEndingBalances) = 10
             /\ allEndingBalances[1] > 0
             /\ simulatorStatistics.successRate = Fraction(100, 1)

\* The ten trials of the reference scenario have run
C14_Witness ==
    /\ Resolved
    /\ IsReferenceScenario
    /\ params.returnVolatility = 0
    /\ Len(allEndingBalances) = 10
    /\ simulatorStatistics.median > 0

-----------------------------------------------------------------------------
(* Properties of the trial's surroundings *)

\* C15: every return sample of a trial, in the accumulation years and in the
\* distribution years, is drawn from a uniform source that the simulator
\* passes to the sampler, never from the sampler's default Math.random.
C15_ExplicitRandomSource ==
    log.phase \in {"accumulation", "distribution"} => log.randomFn # "Math.random"

\* A step of runSingleSimulation: its entry, a simulated year, the passage
\* to the distribution phase or its return
InTrialStep ==
    \/ pc = "idle" /\ pc' = "accumulation"
    \/ pc \in {"accumulation", "distribution", "exit"}

\* C16: a runSingleSimulation call starts from a five-balance record built
\* from the parameters and writes neither to params (its accounts and
\* contributions included), nor to the life events, nor to allEndingBalances
\* or samplePaths: what a trial starts from is what the constructor was
\* given, whatever the earlier trials did.
C16_TrialFrame ==
    [][InTrialStep =>
         /\ UNCHANGED <<params, lifeEvents, allEndingBalances, samplePaths>>
         /\ pc = "idle" =>
              /\ DOMAIN balances' = Accounts
              /\ \A a \in Accounts :
                   /\ balances'[a] =
                        IF params.advancedMode THEN params.accounts[a]
                        ELSE IF a = "traditional401k" THEN params.currentSavings
                        ELSE 0
                   /\ contribs'[a] =
                        IF params.advancedMode THEN params.contributions[a]
                        ELSE IF a = "traditional401k" THEN params.annualContribution
                        ELSE 0]_vars

\* A later trial of a run starts from params.accounts after an earlier trial
\* ended with other balances
C16_Witness ==
    /\ run.pc = "batch"
    /\ pc = "accumulation"
    /\ year = 0
    /\ params.advancedMode
    /\ Len(trialResults) >= 1
    /\ trialResults[1].finalBalance # getTotalBalance(params.accounts)
    /\ balances = params.accounts
    /\ balances = PreTaxAccounts

-----------------------------------------------------------------------------
(* Properties of the pure functions, under SpecFunctions *)

GotStatistics == ret.done /\ call.op = "getStatistics"

Below(list, x) == Cardinality({ j \in DOMAIN list : list[j] < x })

UpTo(list, x) == Cardinality({ j \in DOMAIN list : list[j] <= x })

\* x is the element at index i (from 0) of the list sorted in ascending order
IsAtRank(x, list, i) ==
    /\ \E j \in DOMAIN list : list[j] = x
    /\ Below(list, x) <= i
    /\ i < UpTo(list, x)

\* C17: getStatistics returns four zeros for an empty collection; for N >= 1
\* values it returns successRate = 100 * (number of values > 0) / N and, as
\* median, percentile10 and percentile90, the elements at indices
\* floor(N * 0.5), floor(N * 0.1) and floor(N * 0.9) of the values sorted in
\* ascending order; the collection it was given is left as it was.
C17_Statistics ==
    GotStatistics =>
        /\ ret.list = call.list
        /\ Len(call.list) = 0 =>
             ret.value = [successRate |-> [num |-> 0, den |-> 1], median |-> 0,
                          percentile10 |-> 0, percentile90 |-> 0]
        /\ Len(call.list) >= 1 =>
             /\ ret.value.successRate.num * Len(call.list)
                  = 100 * (Len(call.list) - UpTo(call.list, 0))
                      * ret.value.successRate.den
             /\ IsAtRank(ret.value.median, call.list, (Len(call.list) * 5) \div 10)
             /\ IsAtRank(ret.value.percentile10, call.list, Len(call.list) \div 10)
             /\ IsAtRank(ret.value.percentile90, call.list,
                         (Len(call.list) * 9) \div 10)

\* Eleven distinct values out of order: the 10th percentile is not the
\* smallest, the 90th not the largest, and some values are not positive
C17_Witness ==
    /\ GotStatistics
    /\ Len(call.list) = 11
    /\ call.list[1] > call.list[2]
    /\ Below(call.list, ret.value.percentile10) = 1
    /\ Below(call.list, ret.value.percentile90) = 9
    /\ Below(call.list, ret.value.median) = 5
    /\ ret.value.successRate = [num |-> 900, den |-> 11]

GotHistogram == ret.done /\ call.op = "getHistogramData"

SmallestOf(list) == CHOOSE x \in { list[j] : j \in DOMAIN list } :
                        \A j \in DOMAIN list : x <= list[j]

LargestOf(list) == CHOOSE x \in { list[j] : j \in DOMAIN list } :
                       \A j \in DOMAIN list : x >= list[j]

RECURSIVE SumSeq(_)
SumSeq(seq) == IF seq = <<>> THEN 0 ELSE Head(seq) + SumSeq(Tail(seq))

\* b (from 0) is min(floor((v - min) / binWidth), B - 1), binWidth = range / B
IsBinOf(b, v, min, range, B) ==
    IF range = 0 THEN b = 0
    ELSE \/ /\ b < B - 1
            /\ b * range <= (v - min) * B
            /\ (v - min) * B < (b + 1) * range
         \/ /\ b = B - 1
            /\ (B - 1) * range <= (v - min) * B

\* C18: for N >= 1 final balances and B >= 1 bins getHistogramData returns B
\* counts, none negative, that add up to N; a value v is counted in bin
\* min(floor((v - min) / binWidth), B - 1), and when all values are equal
\* they are all in bin 0.
C18_Histogram ==
    (GotHistogram /\ Len(call.list) >= 1) =>
        /\ Len(ret.value.data) = call.numBins
        /\ \A i \in 1..call.numBins : ret.value.data[i] >= 0
        /\ SumSeq(ret.value.data) = Len(call.list)
        /\ \A i \in 1..call.numBins :
             ret.value.data[i] =
               Cardinality({ j \in DOMAIN call.list :
                               IsBinOf(i - 1, call.list[j], SmallestOf(call.list),
                                       LargestOf(call.list) - SmallestOf(call.list),
                                       call.numBins) })
        /\ SmallestOf(call.list) = LargestOf(call.list) =>
             ret.value.data[1] = Len(call.list)

\* Values spread over the bins, with the largest one held in the last bin
C18_Witness ==
    /\ GotHistogram
    /\ call.numBins = 3
    /\ Len(call.list) = 11
    /\ \A i \in 1..3 : ret.value.data[i] >= 2
    /\ ret.value.data[1] # ret.value.data[3]

GotImpact == ret.done /\ call.op = "getLifeEventImpact"

RECURSIVE SumAmounts(_, _)
SumAmounts(events, S) ==
    IF S = {} THEN 0
    ELSE events[CHOOSE i \in S : TRUE].amount
           + SumAmounts(events, S \ {CHOOSE i \in S : TRUE})

ActiveOfType(events, age, type) ==
    { i \in DOMAIN events :
        /\ events[i].type = type
        /\ events[i].startAge <= age
        /\ age < events[i].startAge + events[i].duration }

\* C19: getLifeEventImpact(age, events) returns, as two separate totals, the
\* sum of the amounts of the expense events and the sum of the amounts of
\* the income events with startAge <= age < startAge + duration; other
\* events add nothing and the list of events is left as it was.
C19_LifeEventImpact ==
    GotImpact =>
        /\ ret.value.expense
             = SumAmounts(call.events, ActiveOfType(call.events, call.age, "expense"))
        /\ ret.value.income
             = SumAmounts(call.events, ActiveOfType(call.events, call.age, "income"))
        /\ ret.events = call.events

\* An active expense is counted while an income event that ended at this
\* very age is not
C19_Witness ==
    /\ GotImpact
    /\ ret.value.expense > 0
    /\ ret.value.income = 0
    /\ \E i \in DOMAIN call.events :
         /\ call.events[i].type = "income"
         /\ call.age = call.events[i].startAge + call.events[i].duration

GotBenefit == ret.done /\ call.op = "adjustBenefitForAge"

\* C20: adjustBenefitForAge returns pia at the full retirement age; m months
\* early it returns pia * (1 - (min(m, 36) * 5/9 + max(m - 36, 0) * 5/12) / 100);
\* m months late it returns pia * (1 + 0.08 * m / 12).  One year early is
\* pia * (1 - 12 * (5/9) / 100) = pia * 14/15, three years late pia * 1.24.
\* (5/9 = 20/36 and 5/12 = 15/36, so the early factor is counted in 3600ths.)
C20_AdjustBenefit ==
    GotBenefit =>
        /\ call.claimAge = call.fra => ret.value = Fraction(call.pia, 1)
        /\ call.claimAge < call.fra =>
             ret.value.num * 3600
               = call.pia * (3600 - (Min(call.fra - call.claimAge, 36) * 20
                                     + Max(call.fra - call.claimAge - 36, 0) * 15))
                   * ret.value.den
        /\ call.claimAge > call.fra =>
             ret.value.num * 1200
               = call.pia * (1200 + 8 * (call.claimAge - call.fra)) * ret.value.den
        /\ call.fra - call.claimAge = 12 => ret.value = Fraction(call.pia * 14, 15)
        /\ call.claimAge - call.fra = 36 => ret.value = Fraction(call.pia * 31, 25)

\* Four years early: 36 months at 5/9 percent and 12 at 5/12 percent, 25 percent
C20_Witness ==
    /\ GotBenefit
    /\ call.pia = 2000
    /\ call.fra - call.claimAge = 48
    /\ ret.value = [num |-> 1500, den |-> 1]

-----------------------------------------------------------------------------
(* Properties of the benefit estimate and of the tax, under SpecFunctions *)

GotPIA == call.op = "estimatePIA" /\ ret.done

\* The average indexed monthly earnings A of the claim, times 420
PIAEarnings(annualIncome, yearsWorked) ==
    Min(annualIncome, 168600) * Min(yearsWorked, 35)

\* 42000 times 0.90 * min(A, 1174) + 0.32 * max(min(A, 7078) - 1174, 0)
\* + 0.15 * max(A - 7078, 0), for A = e / 420
PIAFormula(e) ==
    90 * Min(e, 1174 * 420) + 32 * Max(Min(e, 7078 * 420) - 1174 * 420, 0)
      + 15 * Max(e - 7078 * 420, 0)

\* v is x / 42000 rounded to the nearest integer, halves upwards
IsRoundOf(v, x) == 2 * x - 42000 < 84000 * v /\ 84000 * v <= 2 * x + 42000

\* C21: estimatePIA(annualIncome, yearsWorked) is the three-tier formula on
\* A = min(annualIncome, 168600) * min(yearsWorked, 35) / 420, rounded; so
\* income above 168600 and years above 35 give what 168600 and 35 give, zero
\* income or zero years gives 0, and estimatePIA(168600, 35) is 3992.
C21_EstimatePIA ==
    GotPIA =>
        /\ IsRoundOf(ret.value,
                     PIAFormula(PIAEarnings(call.annualIncome, call.yearsWorked)))
        /\ ret.value = estimatePIA(Min(call.annualIncome, 168600),
                                   Min(call.yearsWorked, 35))
        /\ (call.annualIncome = 0 \/ call.yearsWorked = 0) => ret.value = 0
        /\ (call.annualIncome = 168600 /\ call.yearsWorked = 35) => ret.value = 3992

C21_Witness ==
    /\ GotPIA
    /\ call.annualIncome > 168600
    /\ call.yearsWorked > 35
    /\ ret.value = 3992

GotTax == call.op = "calculateFederalTax" /\ ret.done

\* The table of a filing status
BracketsOf(filingStatus) ==
    IF filingStatus = "mfj"
    THEN FEDERAL_TAX_BRACKETS_MFJ_2024
    ELSE FEDERAL_TAX_BRACKETS_2024

\* The part of the income that lies inside a bracket
InsideBracket(income, bracket) ==
    Max(0, (IF bracket.unbounded THEN income ELSE Min(income, bracket.max))
             - bracket.min)

\* 100 times the marginal sum over the first n brackets
RECURSIVE MarginalSum(_, _, _)
MarginalSum(income, brackets, n) ==
    IF n = 0
    THEN 0
    ELSE brackets[n].rate * InsideBracket(income, brackets[n])
           + MarginalSum(income, brackets, n - 1)

\* C22: for every taxable income and filing status, calculateFederalTax is
\* the marginal bracket sum over that status's own table (rate times the part
\* of the income inside each bracket), and 0 for an income of 0 or less.
C22_FederalTax ==
    GotTax =>
        /\ ret.value = Fraction(MarginalSum(call.taxableIncome,
                                            BracketsOf(call.filingStatus), 7),
                                100)
        /\ call.taxableIncome <= 0 => ret.value = Fraction(0, 1)

C22_Witness ==
    /\ GotTax
    /\ call.filingStatus = "mfj"
    /\ call.taxableIncome = 1000000
    /\ ret.value = Fraction(29612550, 100)

\* C23: for every claimAge below fra the benefit returned by
\* adjustBenefitForAge is at least 0.70 of the pia (the early reduction is at
\* most 30%).
C23_EarlyReductionAtMost30 ==
    (GotBenefit /\ call.claimAge < call.fra) =>
        10 * ret.value.num >= 7 * call.pia * ret.value.den

-----------------------------------------------------------------------------
(* Properties of the transfer detection, under SpecTransfers *)

Detected == call.op = "detectTransfers" /\ ret.calls >= 1

\* The transactions the last call marked: it marks no manual override, and
\* it has cleared every other mark first
MarkedByCall ==
    { i \in DOMAIN ret.value :
        ret.value[i].isTransfer /\ ~ret.value[i].manuallyUnmarkedTransfer }

\* The positions of the list whose transaction has the id
WithId(id) == { j \in DOMAIN ret.value : ret.value[j].id = id }

\* C24: after detectTransfers the marks form a symmetric one-to-one pairing:
\* the transferMatch of a transaction it marked is the id of exactly one
\* other transaction, which is marked, names it back and is a transfer pair
\* with it; no transaction is in two pairs; a manual override keeps what it
\* had and is nobody's match; every other transaction is left unmarked with
\* no match, whatever an earlier call left; a second call changes nothing.
C24_TransferPairing ==
    Detected =>
        /\ \A i \in MarkedByCall :
              /\ Cardinality(WithId(ret.value[i].transferMatch)) = 1
              /\ \A j \in WithId(ret.value[i].transferMatch) :
                    /\ j # i
                    /\ j \in MarkedByCall
                    /\ ret.value[j].transferMatch = ret.value[i].id
                    /\ isTransferPair(ret.value[i], ret.value[j])
        /\ \A i, j \in MarkedByCall :
              ret.value[i].transferMatch = ret.value[j].transferMatch => i = j
        /\ \A i \in DOMAIN ret.value :
              /\ ret.value[i].manuallyUnmarkedTransfer =>
                    /\ ret.value[i] = ret.before[i]
                    /\ \A j \in MarkedByCall :
                          ret.value[j].transferMatch # ret.value[i].id
              /\ (~ret.value[i].manuallyUnmarkedTransfer /\ ~ret.value[i].isTransfer) =>
                    ret.value[i].transferMatch = "null"
        /\ ret.calls >= 2 => ret.value = ret.before

\* Two calls on: a manual override that would pair with the second
\* transaction, which carries a stale mark and ends paired with the third
C24_Witness ==
    /\ call.op = "detectTransfers"
    /\ ret.calls = 2
    /\ Len(ret.value) = 3
    /\ call.transactions[1].manuallyUnmarkedTransfer
    /\ isTransferPair(call.transactions[1], call.transactions[2])
    /\ call.transactions[2].isTransfer
    /\ call.transactions[2].transferMatch = "3"
    /\ ~call.transactions[3].isTransfer
    /\ MarkedByCall = {2, 3}
    /\ ret.value[2].transferMatch = "3"
    /\ ret.value[3].transferMatch = "2"

-----------------------------------------------------------------------------
(* Properties of a distribution year, under Spec *)

\* C25: in the distribution phase, when part of the year's net spending need
\* is still unmet after the RMD and the waterfall, no account has a positive
\* balance, the total is <= 0, and the loop ends in that year: no later year
\* is simulated.
C25_UnmetSpendingEndsTrial ==
    (log.phase = "distribution" /\ log.remaining > 0) =>
        /\ \A a \in Accounts : balances[a] <= 0
        /\ getTotalBalance(balances) <= 0
        /\ log.early
        /\ pc \in {"exit", "done"}
        /\ year = log.k
        /\ draws = params.retirementAge - params.currentAge + log.k + 1

\* A first retirement year that started with money and ended with unmet
\* spending, the trial returned with a year left unsimulated
C25_Witness ==
    /\ log.phase = "distribution"
    /\ log.remaining > 0
    /\ getTotalBalance(log.afterReturn) > 0
    /\ pc = "done"
    /\ log.k + 1 < params.yearsInRetirement

\* C26: within a distribution year no balance increases after the market
\* return has been applied (neither income in excess of spending nor an RMD
\* in excess of the net spending need is deposited), so the total at the end
\* of the year is at most the total right after the return.
C26_NoDepositInDistribution ==
    log.phase = "distribution" =>
        /\ \A a \in Accounts : balances[a] <= log.afterReturn[a]
        /\ getTotalBalance(balances) <= getTotalBalance(log.afterReturn)
        /\ log.need <= 0 =>
              getTotalBalance(balances)
                = getTotalBalance(log.afterReturn) - log.rmdWithdrawn
        /\ log.rmdWithdrawn > log.need =>
              getTotalBalance(balances)
                = getTotalBalance(log.afterReturn) - log.rmdWithdrawn

\* A year whose income exceeds its spending, with an RMD taken
C26_Witness ==
    /\ log.phase = "distribution"
    /\ log.need < 0
    /\ log.rmdWithdrawn > 0
    /\ getTotalBalance(balances) > 0

-----------------------------------------------------------------------------
(* Properties of the RMD of a distribution year, under SpecHelpers *)

\* The age of the year of the call, in half years
AgeInHalfYears == call.retirementAge + 2 * call.year

\* C28: for every age a with 73 <= a < 120 that the simulator passes to
\* calculateRMD (retirementAge + k, a non-integer retirementAge included) the
\* period used is the Uniform Lifetime table entry of an age within one year
\* of a; the fallback period 2.0 is used only from age 120 on.
C28_FallbackOnlyFrom120 ==
    (/\ call.op = "calculateRMDInYear"
     /\ ret.done
     /\ 2 * 73 <= AgeInHalfYears
     /\ AgeInHalfYears < 2 * 120
     /\ call.balances.traditional401k + call.balances.traditionalIRA > 0) =>
        \E t \in DOMAIN RMD_TABLE :
            /\ Abs(2 * t - AgeInHalfYears) <= 2
            /\ ret.period = RMD_TABLE[t]

-----------------------------------------------------------------------------
(* The inline cascades against withdrawFromAccounts, under SpecHelpers *)

InlineCascadeDone ==
    call.op \in {"accumulationCascade", "distributionCascade"} /\ ret.done

\* C29: for every balance record and every amount > 0, each of the two
\* cascades written inline in runSingleSimulation leaves the five balances
\* and the unmet remainder that withdrawFromAccounts(balances, amount) leaves.
C29_InlineCascadesRefine ==
    (InlineCascadeDone /\ call.arg > 0) =>
        /\ ret.balances = withdrawFromAccounts(call.balances, call.arg).balances
        /\ ret.value = withdrawFromAccounts(call.balances, call.arg).remaining

\* The spending cascade over an overdrawn taxable account and an overdrawn
\* IRA: the 401k is emptied, the Roth 401k covers part, and 40 stay unmet
C29_Witness ==
    /\ call.op = "distributionCascade"
    /\ ret.done
    /\ call.arg = 100
    /\ call.balances.taxable = -30
    /\ call.balances.traditional401k = 30
    /\ call.balances.traditionalIRA = -30
    /\ call.balances.roth401k = 30
    /\ call.balances.rothIRA = 0
    /\ ret.balances.taxable = -30
    /\ ret.balances.roth401k = 0
    /\ ret.value = 40

-----------------------------------------------------------------------------
(* Properties of the session import, under SpecImport *)

Imported == call.op = "importSession" /\ ret.done

\* The storage keys whose value the call changed
KeysWritten == { key \in StorageKeys : ret.storage[key] # call.storage[key] }

\* C30: importSession returns success = false only when it has written
\* nothing to storage: a session that fails schema validation, or has no
\* importable section, changes no storage key, and a call that writes at
\* least one storage key returns success = true.
C30_FailureWritesNothing ==
    Imported =>
        /\ ~ret.value.success => KeysWritten = {}
        /\ Len(ret.value.errors) > 0 => KeysWritten = {}
        /\ KeysWritten # {} => ret.value.success

-----------------------------------------------------------------------------
(* Properties of two overlapping runSimulations calls, under SpecOverlap *)

BothResolved == \A c \in Calls : run[c].pc = "resolved"

\* C27: when a second runSimulations call is started while a first one is
\* suspended at a batch boundary (numSimulations > 1000), then, however the
\* batches of the two calls interleave, once both calls have resolved
\* allEndingBalances holds exactly numSimulations values and samplePaths at
\* most 30 trajectories.
C27_OverlappingCalls ==
    (params.numSimulations > 1000 /\ BothResolved) =>
        /\ Len(allEndingBalances) = params.numSimulations
        /\ Len(samplePaths) <= 30

====
